---- MODULE Spec2Model ----
(***************************************************************************)
(* A model of proxpi's caches (src/src/proxpi/_cache.py): the file cache   *)
(* (_FileCache), its download workers (Thread running _download_file) and  *)
(* its LFU eviction, and the per-index metadata cache (_IndexCache).       *)
(*                                                                         *)
(* Every step of the model is one access to state shared between threads   *)
(* (the _files dictionary, the cache directory, a lock), so that the       *)
(* interleavings of the model are the interleavings of the Python threads. *)
(***************************************************************************)
EXTENDS Integers, Sequences, FiniteSets, TLC

(***************************************************************************)
(* Bounds of the model.                                                    *)
(***************************************************************************)
\* get calls made over a run of the file cache
MaxCalls == 2
\* download threads created over a run
MaxWorkers == 2

\* max_retries of _download_file
MaxRetries == 3

(***************************************************************************)
(* URLs and cache keys.                                                    *)
(***************************************************************************)
\* the characters the hostname pattern [^a-z0-9]+ does not match
LowerAlnum ==
    {"a", "b", "c", "d", "e", "f", "g", "h", "i", "j", "k", "l", "m", "n", "o",
     "p", "q", "r", "s", "t", "u", "v", "w", "x", "y", "z",
     "0", "1", "2", "3", "4", "5", "6", "7", "8", "9"}

RECURSIVE DropRun(_)
\* the rest of a hostname after the leading run of characters the pattern matches
DropRun(h) ==
    IF h = <<>> \/ Head(h) \in LowerAlnum THEN h ELSE DropRun(Tail(h))

RECURSIVE HostnameNormalise(_)
\* _hostname_normalise_pattern.sub("-", hostname): every maximal run of
\* characters outside a-z0-9 becomes one "-"
HostnameNormalise(h) ==
    IF h = <<>> THEN <<>>
    ELSE IF Head(h) \in LowerAlnum
         THEN <<Head(h)>> \o HostnameNormalise(Tail(h))
         ELSE <<"-">> \o HostnameNormalise(DropRun(Tail(h)))

\* _split_path: the non-empty components of a path
SplitPath(parts) == SelectSeq(parts, LAMBDA p : p # "")

\* _FileCache._get_key: normalised hostname joined with the path components
GetKey(url) ==
    [parent |-> HostnameNormalise(url.host), parts |-> SplitPath(url.path)]

\* urllib.parse.urlsplit(url) of https://<host>/<path>: the scheme, the
\* hostname, the port and the query as strings, the path as its components
Url(host, path) ==
    [scheme |-> "https", host |-> host, port |-> "", path |-> path, query |-> ""]

\* The URLs the callers of the file cache ask for.
UrlX == Url(<<"a", ".", "b">>, <<"x">>)
UrlY == Url(<<"a", ".", "b">>, <<"y">>)
FCUrls == {UrlX, UrlY}
NoUrl == [scheme |-> "", host |-> <<>>, port |-> "", path |-> <<>>, query |-> ""]
FCKeys == {GetKey(u) : u \in FCUrls}
\* The URLs of the files a cache directory holds when _evict_lfu is studied alone.
UrlM == Url(<<"a", ".", "b">>, <<"x.metadata">>)
EvUrls == FCUrls \cup {UrlM}
AllKeys == {GetKey(u) : u \in EvUrls}

\* URLs of the path of UrlX on other indexes: a hostname with other punctuation,
\* another port, another scheme, and a query
UrlAliases ==
    {Url(<<"a", "-", "b">>, <<"x">>),
     [UrlX EXCEPT !.port = "8080"],
     [UrlX EXCEPT !.scheme = "http"],
     [UrlX EXCEPT !.query = "v=2"]}

\* path.endswith('.metadata') in _download_file
IsMetadata(url) ==
    Len(url.path) > 0 /\ url.path[Len(url.path)] \in {"x.metadata", "y.metadata"}

\* The length of the body upstream serves for a URL (Content-Length of a
\* complete response).
BodySize(url) == IF IsMetadata(url) THEN 1 ELSE 2

\* The values of max_size (PROXPI_CACHE_SIZE) the model runs with.
MaxSizes == {0, 3}

\* _evict_lfu alone: the largest max_size, file size and hit count of its inputs
MaxBudget == 4
MaxFileSize == 2
MaxHits == 2

(***************************************************************************)
(* State.                                                                  *)
(***************************************************************************)
VARIABLES
    max_size,     \* _FileCache.max_size
    files,        \* _FileCache._files: the dictionary, in insertion order
    disk,         \* cache directory: length of the file at a key's path, -1 if none
    temp,         \* cache directory: length of <path>.downloading, -1 if none
    workers,      \* the Thread objects created by _start_downloading
    callers,      \* the threads calling _FileCache.get, with their locals
    evict_lock,   \* _FileCache._evict_lock: its holder, or "free"
    ncalls        \* get calls made so far

\* The state of one _IndexCache and of the threads that use it.
VARIABLES
    now,            \* the value _now() returns
    ttl,            \* _IndexCache.ttl
    index_t,        \* _IndexCache._index_t, -1 for None
    index,          \* _IndexCache._index: its keys
    packages,       \* _IndexCache._packages: refreshed of a name's Package, -1 if none
    package_files,  \* _IndexCache._packages: the files a name's Package has, -1 if none
    locks_made,     \* _Locks._locks: how many mutexes were ever stored under a key
    index_lock,     \* _IndexCache._index_lock: its holder, or "free"
    locks_lock,     \* _Locks._lock of _package_locks: its holder, or "free"
    package_locks,  \* _Locks._locks of _package_locks: "none", "free" or the holder
    listers,        \* the threads calling _IndexCache.list_files, with their locals
    invalidator,    \* the thread calling _IndexCache.invalidate_project
    nlists          \* list_files and invalidate_project calls made so far

fcvars == <<max_size, files, disk, temp, workers, callers, evict_lock, ncalls>>
icvars == <<now, ttl, index_t, index, packages, package_files, locks_made, index_lock, locks_lock,
            package_locks, listers, invalidator, nlists>>

\* The state of a Cache over its indexes, seen by one request at a time.
VARIABLES
    indexes,        \* Cache.root_cache (the first) and Cache.extra_caches: what each serves
    agg             \* the request handler calling a method of Cache, with its result

aggvars == <<indexes, agg>>

\* One file of a project on its way from the upstream index to a client.
VARIABLES
    upstream,       \* what the index sent: the anchor or the JSON file object
    http            \* the request and the handler of server.list_files serving it

srvvars == <<upstream, http>>
vars == <<fcvars, icvars, aggvars, srvvars>>

\* what no step changes
conf == <<max_size>>

Callers == {"c1", "c2"}

(***************************************************************************)
(* The _files dictionary: a sequence of entries in insertion order.  An    *)
(* entry is a Thread (kind "thread", id the thread) or a _CachedFile       *)
(* (kind "cached", id the identity of the object, size, n_hits).           *)
(***************************************************************************)
Has(fs, k) == \E i \in 1..Len(fs) : fs[i].key = k
Idx(fs, k) == CHOOSE i \in 1..Len(fs) : fs[i].key = k
Lookup(fs, k) == fs[Idx(fs, k)]
\* d[k] = e: a new key goes last, an existing key keeps its place
Put(fs, k, e) == IF Has(fs, k) THEN [fs EXCEPT ![Idx(fs, k)] = e] ELSE Append(fs, e)
\* d.pop(k)
Pop(fs, k) == SelectSeq(fs, LAMBDA e : e.key # k)

ThreadEntry(k, tid) == [key |-> k, kind |-> "thread", id |-> tid, size |-> 0, n_hits |-> 0]
\* _CachedFile(path, size, n_hits)
CachedFile(k, oid, size, n) == [key |-> k, kind |-> "cached", id |-> oid, size |-> size, n_hits |-> n]

IsThread(fs, k) == Has(fs, k) /\ Lookup(fs, k).kind = "thread"
IsCached(fs, k) == Has(fs, k) /\ Lookup(fs, k).kind = "cached"

RECURSIVE SumSizes(_, _)
\* sum(self._files[k].size for k in cache_keys)
SumSizes(fs, keys) ==
    IF keys = <<>> THEN 0
    ELSE (IF Has(fs, Head(keys)) THEN Lookup(fs, Head(keys)).size ELSE 0)
         + SumSizes(fs, Tail(keys))

RECURSIVE InsertBy(_, _, _)
\* insert k into the sorted list after every element whose value is <= its own
InsertBy(sorted, k, val) ==
    IF sorted = <<>> THEN <<k>>
    ELSE IF val[Head(sorted)] <= val[k]
         THEN <<Head(sorted)>> \o InsertBy(Tail(sorted), k, val)
         ELSE <<k>> \o sorted

RECURSIVE SortBy(_, _)
\* list.sort(key=...): a stable sort, ascending by val
SortBy(keys, val) ==
    IF keys = <<>> THEN <<>>
    ELSE InsertBy(SortBy(SubSeq(keys, 1, Len(keys) - 1), val), keys[Len(keys)], val)

\* [u for u, f in self._files.items() if isinstance(f, _CachedFile)]
CachedKeys(fs) ==
    LET cached == SelectSeq(fs, LAMBDA e : e.kind = "cached")
    IN  [i \in 1..Len(cached) |-> cached[i].key]

SizeOf(fs) == [k \in {fs[i].key : i \in 1..Len(fs)} |-> Lookup(fs, k).size]
HitsOf(fs) == [k \in {fs[i].key : i \in 1..Len(fs)} |-> Lookup(fs, k).n_hits]

\* the two sorts in the other order: by n_hits, then (stably) by size
EvictOrderSizeLast(fs) == SortBy(SortBy(CachedKeys(fs), HitsOf(fs)), SizeOf(fs))
\* cache_keys after the two sorts of _evict_lfu: by size, then (stably) by n_hits
EvictOrder(fs) == SortBy(SortBy(CachedKeys(fs), SizeOf(fs)), HitsOf(fs))

(***************************************************************************)
(* Callers of _FileCache.get.                                              *)
(***************************************************************************)
IdleCaller ==
    [pc |-> "idle", url |-> NoUrl, handle |-> 0, obj |-> 0, osize |-> 0, nh |-> 0,
     res |-> "none", joins |-> 0, jout |-> "none", depth |-> 0,
     cache_keys |-> <<>>, existing_size |-> 0, file_size |-> 0]

Key(c) == GetKey(callers[c].url)

\* _populate_files_from_existing_cache_dir over a directory that holds the
\* files downloaded from the URLs us: each a _CachedFile with the file's size
\* and no hits
RECURSIVE Populate(_)
Populate(us) ==
    IF us = <<>> THEN <<>>
    ELSE <<CachedFile(GetKey(Head(us)), 0, BodySize(Head(us)), 0)>> \o Populate(Tail(us))

\* the orders in which os.walk may meet the files of a directory
Walks(K) ==
    UNION {{s \in [1..Cardinality(S) -> S] : \A i, j \in 1..Cardinality(S) : i # j => s[i] # s[j]}
           : S \in SUBSET K}

\* __init__: no download, no caller, and the cache directory either new
\* (tempfile.mkdtemp) or, here for a cache that is switched off, one that holds files
FCInit ==
    /\ max_size \in MaxSizes
    /\ \E us \in IF max_size = 0 THEN Walks(FCUrls) ELSE {<<>>} :
         /\ files = Populate(us)
         /\ disk = [k \in AllKeys |-> IF Has(Populate(us), k) THEN Lookup(Populate(us), k).size ELSE -1]
    /\ temp = [k \in AllKeys |-> -1]
    /\ workers = <<>>
    /\ callers = [c \in Callers |-> IdleCaller]
    /\ evict_lock = "free"
    /\ ncalls = 0

\* get without its first statement: the cache is used whatever max_size is
GetEntryNoCheck(me) == [me EXCEPT !.pc = "wait"]
\* get up to _wait_for_existing_download: if self.max_size == 0: return url
GetEntry(me) ==
    IF max_size = 0
    THEN [me EXCEPT !.pc = "ret", !.res = "url"]
    ELSE [me EXCEPT !.pc = "wait"]

\* A request handler calls get(url).
Call(c) ==
    /\ callers[c].pc = "idle"
    /\ ncalls < MaxCalls
    /\ \E u \in FCUrls :
         callers' = [callers EXCEPT ![c] = GetEntry([IdleCaller EXCEPT !.url = u])]
    /\ ncalls' = ncalls + 1
    /\ UNCHANGED <<srvvars, aggvars, icvars, conf, files, disk, temp, workers, evict_lock>>

\* A request handler calls get(url) with the URL of a file of another index.
CallAlias(c) ==
    /\ callers[c].pc = "idle"
    /\ ncalls < MaxCalls
    /\ \E u \in UrlAliases :
         callers' = [callers EXCEPT ![c] = GetEntry([IdleCaller EXCEPT !.url = u])]
    /\ ncalls' = ncalls + 1
    /\ UNCHANGED <<srvvars, aggvars, icvars, conf, files, disk, temp, workers, evict_lock>>

\* _wait_for_existing_download: file = self._files.get(url); isinstance(file, Thread)
WaitRead(c) ==
    /\ callers[c].pc = "wait"
    /\ callers' = [callers EXCEPT ![c] =
          IF IsThread(files, Key(c))
          THEN [@ EXCEPT !.pc = "join", !.handle = Lookup(files, Key(c)).id]
          ELSE [@ EXCEPT !.pc = "cached"]]
    /\ UNCHANGED <<srvvars, aggvars, icvars, conf, files, disk, temp, workers, evict_lock, ncalls>>

WorkerDone(w) == workers[w].st \in {"ok", "none", "raised"}

\* file.join(self.download_timeout): returns when the thread has ended or the
\* time-out has passed, and raises the exception the thread ended with
Join(c) ==
    /\ callers[c].pc = "join"
    /\ LET w == callers[c].handle
           n == IF callers[c].joins < 2 THEN callers[c].joins + 1 ELSE 2
       IN callers' = [callers EXCEPT ![c] =
            IF workers[w].st = "raised"
            THEN [@ EXCEPT !.pc = "handler", !.joins = n, !.jout = "failed"]
            ELSE [@ EXCEPT !.pc = "recheck", !.joins = n,
                           !.jout = IF workers[w].st = "ok" THEN "ok"
                                    ELSE IF workers[w].st = "none" THEN "failed"
                                    ELSE "timeout"]]
    /\ UNCHANGED <<srvvars, aggvars, icvars, conf, files, disk, temp, workers, evict_lock, ncalls>>

\* except Exception: if file.exc and file == self._files[url]
Handler(c) ==
    /\ callers[c].pc = "handler"
    /\ callers' = [callers EXCEPT ![c] =
          IF ~Has(files, Key(c))
          THEN [@ EXCEPT !.pc = "raised", !.res = "KeyError"]
          ELSE IF IsThread(files, Key(c)) /\ Lookup(files, Key(c)).id = callers[c].handle
               THEN [@ EXCEPT !.pc = "pop"]
               ELSE [@ EXCEPT !.pc = "ret", !.res = "url"]]
    /\ UNCHANGED <<srvvars, aggvars, icvars, conf, files, disk, temp, workers, evict_lock, ncalls>>

\* self._files.pop(url, None); return True
HandlerPop(c) ==
    /\ callers[c].pc = "pop"
    /\ files' = Pop(files, Key(c))
    /\ callers' = [callers EXCEPT ![c] = [@ EXCEPT !.pc = "ret", !.res = "url"]]
    /\ UNCHANGED <<srvvars, aggvars, icvars, conf, disk, temp, workers, evict_lock, ncalls>>

\* if isinstance(self._files[url], Thread): return True
Recheck(c) ==
    /\ callers[c].pc = "recheck"
    /\ callers' = [callers EXCEPT ![c] =
          IF ~Has(files, Key(c))
          THEN [@ EXCEPT !.pc = "raised", !.res = "KeyError"]
          ELSE IF IsThread(files, Key(c))
               THEN [@ EXCEPT !.pc = "ret", !.res = "url"]
               ELSE [@ EXCEPT !.pc = "cached"]]
    /\ UNCHANGED <<srvvars, aggvars, icvars, conf, files, disk, temp, workers, evict_lock, ncalls>>

\* _get_cached: if url in self._files
CachedCheck(c) ==
    /\ callers[c].pc = "cached"
    /\ callers' = [callers EXCEPT ![c] =
          IF Has(files, Key(c))
          THEN [@ EXCEPT !.pc = "cached_read"]
          ELSE [@ EXCEPT !.pc = "start"]]
    /\ UNCHANGED <<srvvars, aggvars, icvars, conf, files, disk, temp, workers, evict_lock, ncalls>>

\* file = self._files[url]; assert isinstance(file, _CachedFile); the load of
\* file.n_hits in file.n_hits += 1
CachedRead(c) ==
    /\ callers[c].pc = "cached_read"
    /\ callers' = [callers EXCEPT ![c] =
          IF ~Has(files, Key(c))
          THEN [@ EXCEPT !.pc = "raised", !.res = "KeyError"]
          ELSE IF IsThread(files, Key(c))
               THEN [@ EXCEPT !.pc = "raised", !.res = "AssertionError"]
               ELSE [@ EXCEPT !.pc = "hit_store",
                              !.obj = Lookup(files, Key(c)).id,
                              !.osize = Lookup(files, Key(c)).size,
                              !.nh = Lookup(files, Key(c)).n_hits]]
    /\ UNCHANGED <<srvvars, aggvars, icvars, conf, files, disk, temp, workers, evict_lock, ncalls>>

\* the store of file.n_hits += 1 into the object read; return file.path
HitStore(c) ==
    /\ callers[c].pc = "hit_store"
    /\ files' =
          IF IsCached(files, Key(c)) /\ Lookup(files, Key(c)).id = callers[c].obj
          THEN Put(files, Key(c), [Lookup(files, Key(c)) EXCEPT !.n_hits = callers[c].nh + 1])
          ELSE files
    /\ callers' = [callers EXCEPT ![c] = [@ EXCEPT !.pc = "ret", !.res = "path"]]
    /\ UNCHANGED <<srvvars, aggvars, icvars, conf, disk, temp, workers, evict_lock, ncalls>>

NewWorker(u) == [url |-> u, st |-> "attempt", attempt |-> 0, cur |-> 0]

\* _start_downloading: thread = Thread(...); self._files[key] = thread; thread.start()
StartDownloading(c) ==
    /\ callers[c].pc = "start"
    /\ Len(workers) < MaxWorkers
    /\ workers' = Append(workers, NewWorker(callers[c].url))
    /\ files' = Put(files, Key(c), ThreadEntry(Key(c), Len(workers) + 1))
    /\ callers' = [callers EXCEPT ![c] = [@ EXCEPT !.pc = "lock"]]
    /\ UNCHANGED <<srvvars, aggvars, icvars, conf, disk, temp, evict_lock, ncalls>>

\* with self._evict_lock: and _evict_lfu up to its loop: the HEAD request, the
\* candidates, the two sorts and existing_size.  file_size is Content-Length;
\* when requests may fail it is 0 for a response that is not ok or has no such
\* header, and a request that raises ends get with the lock released.
EvictScan(c, faults) ==
    /\ callers[c].pc = "lock"
    /\ evict_lock = "free"
    /\ \E head \in IF faults THEN {"ok", "notok", "raise"} ELSE {"ok"} :
         IF head = "raise"
         THEN /\ callers' = [callers EXCEPT ![c] = [@ EXCEPT !.pc = "raised", !.res = "ConnectionError"]]
              /\ UNCHANGED evict_lock
         ELSE /\ callers' = [callers EXCEPT ![c] =
                    [@ EXCEPT !.pc = "evict",
                              !.file_size = IF head = "ok" THEN BodySize(callers[c].url) ELSE 0,
                              !.cache_keys = EvictOrder(files),
                              !.existing_size = SumSizes(files, CachedKeys(files))]]
              /\ evict_lock' = c
    /\ UNCHANGED <<srvvars, aggvars, icvars, conf, files, disk, temp, workers, ncalls>>

\* the loop condition of _evict_lfu
EvictMore(existing_size, file_size, limit) ==
    existing_size + file_size > limit /\ existing_size > 0

\* One turn of the loop of _evict_lfu (cache_keys.pop(0), self._files.pop,
\* os.unlink, existing_size -= file.size), or its end: the lock is released and
\* get calls itself.
EvictStep(c) ==
    /\ callers[c].pc = "evict"
    /\ LET me == callers[c]
           k == Head(me.cache_keys)
       IN IF ~EvictMore(me.existing_size, me.file_size, max_size)
          THEN /\ callers' = [callers EXCEPT ![c] =
                     GetEntry([@ EXCEPT !.cache_keys = <<>>,
                                        !.existing_size = 0, !.file_size = 0,
                                        !.depth = @ + 1])]
               /\ evict_lock' = "free"
               /\ UNCHANGED <<files, disk>>
          ELSE IF me.cache_keys = <<>>
          THEN /\ callers' = [callers EXCEPT ![c] = [@ EXCEPT !.pc = "raised", !.res = "IndexError"]]
               /\ evict_lock' = "free"
               /\ UNCHANGED <<files, disk>>
          ELSE IF ~Has(files, k)
          THEN /\ callers' = [callers EXCEPT ![c] = [@ EXCEPT !.pc = "raised", !.res = "KeyError"]]
               /\ evict_lock' = "free"
               /\ UNCHANGED <<files, disk>>
          ELSE IF Lookup(files, k).kind = "thread"
          THEN /\ callers' = [callers EXCEPT ![c] = [@ EXCEPT !.pc = "raised", !.res = "AttributeError"]]
               /\ files' = Pop(files, k)
               /\ evict_lock' = "free"
               /\ UNCHANGED disk
          ELSE IF disk[k] = -1
          THEN /\ callers' = [callers EXCEPT ![c] = [@ EXCEPT !.pc = "raised", !.res = "FileNotFoundError"]]
               /\ files' = Pop(files, k)
               /\ evict_lock' = "free"
               /\ UNCHANGED disk
          ELSE /\ callers' = [callers EXCEPT ![c] =
                     [@ EXCEPT !.cache_keys = Tail(me.cache_keys),
                               !.existing_size = me.existing_size - Lookup(files, k).size]]
               /\ files' = Pop(files, k)
               /\ disk' = [disk EXCEPT ![k] = -1]
               /\ UNCHANGED evict_lock
    /\ UNCHANGED <<srvvars, aggvars, icvars, conf, temp, workers, ncalls>>

\* get returns path (a local path or the URL), or an exception leaves get
Return(c) ==
    /\ callers[c].pc \in {"ret", "raised"}
    /\ callers' = [callers EXCEPT ![c] = IdleCaller]
    /\ UNCHANGED <<srvvars, aggvars, icvars, conf, files, disk, temp, workers, evict_lock, ncalls>>

(***************************************************************************)
(* Download workers: Thread(target=self._download_file, args=(url, path)). *)
(***************************************************************************)
WKey(w) == GetKey(workers[w].url)

\* a thread that has ended: how it ended is all that is left of it
Ended(me, how) == [me EXCEPT !.st = how, !.attempt = 0, !.cur = 0]

\* except Exception: before the last attempt the loop goes on; at the last attempt
\* the temporary file and the file at path are removed and None is returned.
\* os.remove is outside any try: when it raises (fails is "temp" or "path", the
\* removal that raises), the thread ends with that exception.
WExcept(w, fails) ==
    LET me == workers[w]
        k == WKey(w)
    IN IF me.attempt < MaxRetries - 1
       THEN /\ workers' = [workers EXCEPT ![w] = [me EXCEPT !.st = "attempt", !.attempt = me.attempt + 1, !.cur = 0]]
            /\ UNCHANGED <<temp, disk>>
       ELSE IF fails = "temp" /\ temp[k] # -1
       THEN /\ workers' = [workers EXCEPT ![w] = Ended(me, "raised")]
            /\ UNCHANGED <<temp, disk>>
       ELSE IF fails = "path" /\ disk[k] # -1
       THEN /\ workers' = [workers EXCEPT ![w] = Ended(me, "raised")]
            /\ temp' = [temp EXCEPT ![k] = -1]
            /\ UNCHANGED disk
       ELSE /\ workers' = [workers EXCEPT ![w] = Ended(me, "none")]
            /\ temp' = [temp EXCEPT ![k] = -1]
            /\ disk' = [disk EXCEPT ![k] = -1]

\* One attempt of the retry loop up to os.rename: the response has a status other
\* than 200/206 ("status"), a request or a write raises ("error"), or the body is
\* written to <path>.downloading, whole ("full") or cut short ("part").  An empty
\* metadata file fails the download, a body shorter than total_size fails the
\* attempt.  Without faults the body is written whole.
WAttempt(w, faults) ==
    /\ w \in 1..Len(workers)
    /\ workers[w].st = "attempt"
    /\ \E outcome \in IF faults THEN {"status", "error", "full", "part"} ELSE {"full"},
          fails \in IF faults THEN {"no", "temp", "path"} ELSE {"no"} :
         LET me == workers[w]
             k == WKey(w)
             size == IF outcome = "full" THEN BodySize(me.url) ELSE BodySize(me.url) - 1
         IN IF outcome = "status"
            THEN /\ fails = "no"
                 /\ temp' = [temp EXCEPT ![k] = -1]
                 /\ workers' = [workers EXCEPT ![w] = Ended(me, "none")]
                 /\ UNCHANGED disk
            ELSE IF outcome = "error"
            THEN WExcept(w, fails)
            ELSE IF IsMetadata(me.url) /\ size = 0
            THEN /\ fails = "no"
                 /\ temp' = [temp EXCEPT ![k] = -1]
                 /\ disk' = [disk EXCEPT ![k] = -1]
                 /\ workers' = [workers EXCEPT ![w] = Ended(me, "none")]
            ELSE IF ~IsMetadata(me.url) /\ BodySize(me.url) > 0 /\ size # BodySize(me.url)
            THEN /\ fails = "no"
                 /\ UNCHANGED disk
                 /\ IF me.attempt = MaxRetries - 1
                    THEN /\ temp' = [temp EXCEPT ![k] = -1]
                         /\ workers' = [workers EXCEPT ![w] = Ended(me, "none")]
                    ELSE /\ temp' = [temp EXCEPT ![k] = size]
                         /\ workers' = [workers EXCEPT ![w] = [me EXCEPT !.attempt = me.attempt + 1]]
            ELSE /\ fails = "no"
                 /\ temp' = [temp EXCEPT ![k] = size]
                 /\ workers' = [workers EXCEPT ![w] = [me EXCEPT !.st = "rename", !.cur = size]]
                 /\ UNCHANGED disk
    /\ UNCHANGED <<srvvars, aggvars, icvars, conf, files, callers, evict_lock, ncalls>>

\* os.rename(temp_path, path): raises when the temporary file is gone, and
\* with faults may fail in the file system
WRename(w, faults) ==
    /\ w \in 1..Len(workers)
    /\ workers[w].st = "rename"
    /\ LET k == WKey(w)
       IN \E renamed \in IF temp[k] = -1 THEN {FALSE}
                          ELSE IF faults THEN {TRUE, FALSE} ELSE {TRUE},
             fails \in IF faults THEN {"no", "temp", "path"} ELSE {"no"} :
            IF renamed
            THEN /\ fails = "no"
                 /\ disk' = [disk EXCEPT ![k] = temp[k]]
                 /\ temp' = [temp EXCEPT ![k] = -1]
                 /\ workers' = [workers EXCEPT ![w] = [@ EXCEPT !.st = "publish", !.attempt = 0]]
            ELSE WExcept(w, fails)
    /\ UNCHANGED <<srvvars, aggvars, icvars, conf, files, callers, evict_lock, ncalls>>

\* self._files[key] = _CachedFile(path, current_size, 0); return path
WPublish(w) ==
    /\ w \in 1..Len(workers)
    /\ workers[w].st = "publish"
    /\ files' = Put(files, WKey(w), CachedFile(WKey(w), w, workers[w].cur, 0))
    /\ workers' = [workers EXCEPT ![w] = Ended(@, "ok")]
    /\ UNCHANGED <<srvvars, aggvars, icvars, conf, disk, temp, callers, evict_lock, ncalls>>

(***************************************************************************)
(* The index cache: _IndexCache.list_files and invalidate_project.         *)
(***************************************************************************)
\* the characters _name_normalise_re ([-_.]+) matches
NameSeparators == {"-", "_", "."}

Uppers == <<"A", "B", "C", "D", "E", "F", "G", "H", "I", "J", "K", "L", "M",
            "N", "O", "P", "Q", "R", "S", "T", "U", "V", "W", "X", "Y", "Z">>
Lowers == <<"a", "b", "c", "d", "e", "f", "g", "h", "i", "j", "k", "l", "m",
            "n", "o", "p", "q", "r", "s", "t", "u", "v", "w", "x", "y", "z">>

\* str.lower() of one character
Lower(ch) ==
    IF \E i \in 1..Len(Uppers) : Uppers[i] = ch
    THEN Lowers[CHOOSE i \in 1..Len(Uppers) : Uppers[i] = ch]
    ELSE ch

RECURSIVE DropSeparators(_)
\* the rest of a name after a leading run of separators
DropSeparators(n) ==
    IF n = <<>> \/ Head(n) \notin NameSeparators THEN n ELSE DropSeparators(Tail(n))

RECURSIVE NameNormalise(_)
\* _name_normalise_re.sub("-", name).lower(): every maximal run of - _ .
\* becomes one "-", every letter its lower case
NameNormalise(n) ==
    IF n = <<>> THEN <<>>
    ELSE IF Head(n) \in NameSeparators
         THEN <<"-">> \o NameNormalise(DropSeparators(Tail(n)))
         ELSE <<Lower(Head(n))>> \o NameNormalise(Tail(n))

\* The project names list_files is called with, two spellings of one project,
\* and the projects upstream has.
NameP == <<"p">>
NameQ == <<"P">>
ICNames == {NameP, NameQ}
NoName == <<>>
UpstreamProjects == {NameNormalise(n) : n \in ICNames}

\* the values of ttl (PROXPI_INDEX_TTL) the model runs with
TTLs == {0, 2}
\* the clock stops here
MaxTime == 2
\* list_files and invalidate_project calls made over a run
MaxLists == 3
\* the files on a project's page
MaxPageFiles == 2

Listers == {"t1", "t2"}

\* A thread outside list_files and list_projects.  op is the method it runs.
\* reqs counts the project-page requests the call has sent; waited says that
\* the call found the project's lock held, and refreshed that a Package was
\* stored for its name while it waited.  ireqs, iwaited and irefreshed say the
\* same of the project list and _index_lock.  fresh and ifresh record what the
\* call found when it tested the age of its Package and of the project list.
\* package is the Package _list_files is building from a response.
IdleLister ==
    [pc |-> "idle", op |-> "none", name |-> NoName, exc |-> "none", reqs |-> 0,
     package |-> [refreshed |-> -1, files |-> 0], lock |-> 0, listed |-> {},
     waited |-> FALSE, refreshed |-> FALSE,
     ireqs |-> 0, iwaited |-> FALSE, irefreshed |-> FALSE,
     fresh |-> "none", ifresh |-> "none"]

IdleInvalidator == [pc |-> "idle", name |-> NoName]

\* _IndexCache.__init__
ICInit ==
    /\ now = 0
    /\ ttl \in TTLs
    /\ index_t = -1
    /\ index = {}
    /\ packages = [n \in ICNames |-> -1]
    /\ package_files = [n \in ICNames |-> -1]
    /\ index_lock = "free"
    /\ locks_lock = "free"
    /\ package_locks = [n \in ICNames |-> "none"]
    /\ locks_made = [n \in ICNames |-> 0]
    /\ listers = [t \in Listers |-> IdleLister]
    /\ invalidator = IdleInvalidator
    /\ nlists = 0

\* time passes
Tick ==
    /\ now < MaxTime
    /\ now' = now + 1
    /\ UNCHANGED <<srvvars, aggvars, fcvars, package_files, locks_made, ttl, index_t, index, packages, index_lock, locks_lock,
                   package_locks, listers, invalidator, nlists>>

\* A request handler calls list_files(package_name).
ListFiles(t) ==
    /\ listers[t].pc = "idle"
    /\ nlists < MaxLists
    /\ \E n \in ICNames :
         listers' = [listers EXCEPT ![t] =
            [IdleLister EXCEPT !.pc = "locks_check", !.op = "files", !.name = n]]
    /\ nlists' = nlists + 1
    /\ UNCHANGED <<srvvars, aggvars, fcvars, package_files, locks_made, now, ttl, index_t, index, packages, index_lock, locks_lock,
                   package_locks, invalidator>>

\* _Locks.__getitem__: if k not in self._locks
LocksCheck(t) ==
    /\ listers[t].pc = "locks_check"
    /\ listers' = [listers EXCEPT ![t] =
          IF package_locks[listers[t].name] = "none"
          THEN [@ EXCEPT !.pc = "locks_lock"]
          ELSE [@ EXCEPT !.pc = "acquire", !.lock = locks_made[listers[t].name]]]
    /\ UNCHANGED <<srvvars, aggvars, fcvars, package_files, locks_made, now, ttl, index_t, index, packages, index_lock, locks_lock,
                   package_locks, invalidator, nlists>>

\* _Locks.__getitem__: with self._lock
LocksLock(t) ==
    /\ listers[t].pc = "locks_lock"
    /\ locks_lock = "free"
    /\ locks_lock' = t
    /\ listers' = [listers EXCEPT ![t] = [@ EXCEPT !.pc = "locks_make"]]
    /\ UNCHANGED <<srvvars, aggvars, fcvars, package_files, locks_made, now, ttl, index_t, index, packages, index_lock,
                   package_locks, invalidator, nlists>>

\* __getitem__ without the second test: a new mutex is stored under the key
\* whatever the key holds
LocksMakeUnchecked(t) ==
    /\ listers[t].pc = "locks_make"
    /\ package_locks' = [package_locks EXCEPT ![listers[t].name] = "free"]
    /\ locks_made' = [locks_made EXCEPT ![listers[t].name] = @ + 1]
    /\ locks_lock' = "free"
    /\ listers' = [listers EXCEPT ![t] =
          [@ EXCEPT !.pc = "acquire", !.lock = locks_made'[listers[t].name]]]
    /\ UNCHANGED <<srvvars, aggvars, fcvars, package_files, now, ttl, index_t, index, packages, index_lock,
                   invalidator, nlists>>
\* _Locks.__getitem__: if k not in self._locks: self._locks[k] = threading.Lock(),
\* the end of the with block and return self._locks[k]
LocksMake(t) ==
    /\ listers[t].pc = "locks_make"
    /\ IF package_locks[listers[t].name] = "none"
       THEN /\ package_locks' = [package_locks EXCEPT ![listers[t].name] = "free"]
            /\ locks_made' = [locks_made EXCEPT ![listers[t].name] = @ + 1]
       ELSE UNCHANGED <<package_locks, locks_made>>
    /\ locks_lock' = "free"
    /\ listers' = [listers EXCEPT ![t] =
          [@ EXCEPT !.pc = "acquire", !.lock = locks_made'[listers[t].name]]]
    /\ UNCHANGED <<srvvars, aggvars, fcvars, package_files, now, ttl, index_t, index, packages, index_lock,
                   invalidator, nlists>>

\* list_files entering its with block with no lock taken
AcquireNoLock(t) ==
    /\ listers[t].pc = "acquire"
    /\ listers' = [listers EXCEPT ![t] = [@ EXCEPT !.pc = "lookup"]]
    /\ UNCHANGED <<srvvars, aggvars, fcvars, package_files, locks_made, now, ttl, index_t, index, packages, index_lock, locks_lock,
                   package_locks, invalidator, nlists>>
\* list_files: with self._package_locks[package_name]: the lock is taken when it
\* is free, and the thread waits while another holds it
Acquire(t) ==
    /\ listers[t].pc = "acquire"
    /\ IF package_locks[listers[t].name] = "free"
       THEN /\ package_locks' = [package_locks EXCEPT ![listers[t].name] = t]
            /\ listers' = [listers EXCEPT ![t] = [@ EXCEPT !.pc = "lookup"]]
       ELSE /\ ~listers[t].waited
            /\ listers' = [listers EXCEPT ![t] = [@ EXCEPT !.waited = TRUE]]
            /\ UNCHANGED package_locks
    /\ UNCHANGED <<srvvars, aggvars, fcvars, package_files, locks_made, now, ttl, index_t, index, packages, index_lock, locks_lock,
                   invalidator, nlists>>

\* the test with <= for <: an item of age ttl still counts as fresh
IsFreshAtTtl(refreshed, time, limit) == refreshed # -1 /\ time <= refreshed + limit
\* package and _now() < package.refreshed + self.ttl
IsFresh(refreshed, time, limit) == refreshed # -1 /\ time < refreshed + limit

\* _list_files: package = self._packages.get(package_name) and the test of its age
LookupPackage(t) ==
    /\ listers[t].pc = "lookup"
    /\ listers' = [listers EXCEPT ![t] =
          IF IsFresh(packages[listers[t].name], now, ttl)
          THEN [@ EXCEPT !.pc = "release", !.fresh = "yes"]
          ELSE [@ EXCEPT !.pc = "direct", !.fresh = "no"]]
    /\ UNCHANGED <<srvvars, aggvars, fcvars, package_files, locks_made, now, ttl, index_t, index, packages, index_lock, locks_lock,
                   package_locks, invalidator, nlists>>

\* _list_files: when the project list is missing or older than ttl, the request
\* for index_url/package_name: it raises, or its response is ok or is not
Direct(t) ==
    /\ listers[t].pc = "direct"
    /\ IF index_t = -1 \/ now > index_t + ttl
       THEN \E outcome \in {"ok", "notok", "raise"} :
               listers' = [listers EXCEPT ![t] =
                  IF outcome = "ok"
                  THEN [@ EXCEPT !.pc = "store", !.reqs = @ + 1,
                                 !.package = [refreshed |-> now, files |-> 0]]
                  ELSE IF outcome = "notok" THEN [@ EXCEPT !.pc = "index_acquire", !.reqs = @ + 1]
                  ELSE [@ EXCEPT !.pc = "release", !.reqs = @ + 1, !.exc = "ConnectionError"]]
       ELSE listers' = [listers EXCEPT ![t] = [@ EXCEPT !.pc = "index_acquire"]]
    /\ UNCHANGED <<srvvars, aggvars, fcvars, package_files, locks_made, now, ttl, index_t, index, packages, index_lock, locks_lock,
                   package_locks, invalidator, nlists>>

\* A request handler calls list_projects().
ListProjects(t) ==
    /\ listers[t].pc = "idle"
    /\ nlists < MaxLists
    /\ listers' = [listers EXCEPT ![t] =
          [IdleLister EXCEPT !.pc = "index_acquire", !.op = "projects"]]
    /\ nlists' = nlists + 1
    /\ UNCHANGED <<srvvars, aggvars, fcvars, package_files, locks_made, now, ttl, index_t, index, packages, index_lock, locks_lock,
                   package_locks, invalidator>>

\* list_projects entering its with block with no lock taken
IndexAcquireNoLock(t) ==
    /\ listers[t].pc = "index_acquire"
    /\ listers' = [listers EXCEPT ![t] = [@ EXCEPT !.pc = "index_refresh"]]
    /\ UNCHANGED <<srvvars, aggvars, fcvars, package_files, locks_made, now, ttl, index_t, index, packages, index_lock, locks_lock,
                   package_locks, invalidator, nlists>>
\* list_projects: with self._index_lock: the lock is taken when it is free, and
\* the thread waits while another holds it
IndexAcquire(t) ==
    /\ listers[t].pc = "index_acquire"
    /\ IF index_lock = "free"
       THEN /\ index_lock' = t
            /\ listers' = [listers EXCEPT ![t] = [@ EXCEPT !.pc = "index_refresh"]]
       ELSE /\ ~listers[t].iwaited
            /\ listers' = [listers EXCEPT ![t] = [@ EXCEPT !.iwaited = TRUE]]
            /\ UNCHANGED index_lock
    /\ UNCHANGED <<srvvars, aggvars, fcvars, package_files, locks_made, now, ttl, index_t, index, packages, locks_lock,
                   package_locks, invalidator, nlists>>

\* self._index_t is not None and _now() < self._index_t + self.ttl
IndexIsFresh(stamp, time, limit) == stamp # -1 /\ time < stamp + limit

\* where a call goes on after list_projects: list_projects returns or raises to
\* its caller, _list_files goes on or leaves the with block of list_files
AfterIndex(me, failed) ==
    IF failed
    THEN [me EXCEPT !.pc = IF me.op = "projects" THEN "raised" ELSE "release",
                    !.exc = "HTTPError"]
    ELSE [me EXCEPT !.pc = IF me.op = "projects" THEN "done" ELSE "via_index"]

\* a refresh that forgets the names the response does not have
ReplaceProjects(old, listed) == listed
\* _list_packages: self._index[name] = ... for each name of the response
AddProjects(old, listed) == old \cup listed

\* _list_packages and the end of the with block of list_projects: a project
\* list younger than ttl is kept; otherwise the index is requested, and the
\* request fails (it raises, or raise_for_status does), or the time is stored
\* and the projects listed are added, all of them or, when reading the
\* streamed body raises, those read before
IndexRefresh(t) ==
    /\ listers[t].pc = "index_refresh"
    /\ index_lock' = "free"
    /\ IF IndexIsFresh(index_t, now, ttl)
       THEN /\ listers' = [listers EXCEPT ![t] = AfterIndex([@ EXCEPT !.ifresh = "yes"], FALSE)]
            /\ UNCHANGED <<index_t, index>>
       ELSE \E outcome \in {"ok", "failed", "broken"}, listed \in SUBSET UpstreamProjects :
               IF outcome = "ok"
               THEN /\ index_t' = now
                    /\ index' = AddProjects(index, listed)
                    /\ listers' = [u \in Listers |->
                          IF u = t
                          THEN AfterIndex([listers[u] EXCEPT
                                             !.ifresh = "no", !.ireqs = @ + 1,
                                             !.listed = IF listers[u].op = "projects"
                                                        THEN listed ELSE {}], FALSE)
                          ELSE IF listers[u].pc = "index_acquire" /\ listers[u].iwaited
                               THEN [listers[u] EXCEPT !.irefreshed = TRUE]
                               ELSE listers[u]]
               ELSE IF outcome = "failed"
               THEN /\ listed = {}
                    /\ listers' = [listers EXCEPT ![t] =
                          AfterIndex([@ EXCEPT !.ifresh = "no", !.ireqs = @ + 1], TRUE)]
                    /\ UNCHANGED <<index_t, index>>
               ELSE /\ listed # UpstreamProjects
                    /\ index_t' = now
                    /\ index' = AddProjects(index, listed)
                    /\ listers' = [listers EXCEPT ![t] =
                          [AfterIndex([@ EXCEPT !.ifresh = "no", !.ireqs = @ + 1], TRUE)
                             EXCEPT !.exc = "ConnectionError"]]
    /\ UNCHANGED <<srvvars, aggvars, fcvars, package_files, locks_made, now, ttl, packages, locks_lock, package_locks, invalidator, nlists>>

\* _list_files after list_projects: NotFound when the normalised name is not
\* listed, KeyError when self._index has no key package_name, else the request
\* for the listed URL, which succeeds or raises (raise_for_status)
ViaIndex(t) ==
    /\ listers[t].pc = "via_index"
    /\ IF NameNormalise(listers[t].name) \notin index
       THEN listers' = [listers EXCEPT ![t] = [@ EXCEPT !.pc = "release", !.exc = "NotFound"]]
       ELSE IF listers[t].name \notin index
       THEN listers' = [listers EXCEPT ![t] = [@ EXCEPT !.pc = "release", !.exc = "KeyError"]]
       ELSE \E ok \in BOOLEAN :
               listers' = [listers EXCEPT ![t] =
                  IF ok
                  THEN [@ EXCEPT !.pc = "store", !.reqs = @ + 1,
                                 !.package = [refreshed |-> now, files |-> 0]]
                  ELSE [@ EXCEPT !.pc = "release", !.reqs = @ + 1, !.exc = "HTTPError"]]
    /\ UNCHANGED <<srvvars, aggvars, fcvars, package_files, locks_made, now, ttl, index_t, index, packages, index_lock, locks_lock,
                   package_locks, invalidator, nlists>>

\* _list_files: package.files[file.name] = file for the next file of the
\* response, or an exception while the streamed body is read
ParseFile(t) ==
    /\ listers[t].pc = "store"
    /\ listers[t].package.files < MaxPageFiles
    /\ \E ok \in BOOLEAN :
         listers' = [listers EXCEPT ![t] =
            IF ok THEN [@ EXCEPT !.package.files = @ + 1]
            ELSE [@ EXCEPT !.pc = "release", !.exc = "ConnectionError"]]
    /\ UNCHANGED <<srvvars, aggvars, fcvars, package_files, locks_made, now, ttl, index_t, index, packages,
                   index_lock, locks_lock, package_locks, invalidator, nlists>>

\* _list_files putting the Package into _packages whatever it holds so far
StoreEarly(t) ==
    /\ listers[t].pc = "store"
    /\ packages' = [packages EXCEPT ![listers[t].name] = listers[t].package.refreshed]
    /\ package_files' = [package_files EXCEPT ![listers[t].name] = listers[t].package.files]
    /\ listers' = [listers EXCEPT ![t] = [@ EXCEPT !.pc = "release"]]
    /\ UNCHANGED <<srvvars, aggvars, fcvars, locks_made, now, ttl, index_t, index, index_lock, locks_lock,
                   package_locks, invalidator, nlists>>

\* _list_files: self._packages[package_name] = package, after the last file
\* of the response; the Package was made with refreshed=_now() before the
\* first
Store(t) ==
    /\ listers[t].pc = "store"
    /\ listers[t].package.files = MaxPageFiles
    /\ packages' = [packages EXCEPT ![listers[t].name] = listers[t].package.refreshed]
    /\ package_files' = [package_files EXCEPT ![listers[t].name] = listers[t].package.files]
    /\ listers' = [u \in Listers |->
          IF u = t THEN [listers[u] EXCEPT !.pc = "release"]
          ELSE IF listers[u].pc = "acquire" /\ listers[u].waited
                  /\ listers[u].name = listers[t].name
               THEN [listers[u] EXCEPT !.refreshed = TRUE]
               ELSE listers[u]]
    /\ UNCHANGED <<srvvars, aggvars, fcvars, locks_made, now, ttl, index_t, index, index_lock, locks_lock,
                   package_locks, invalidator, nlists>>

\* the with block of list_files left without the release when the call raised
ReleaseOnSuccess(t) ==
    /\ listers[t].pc = "release"
    /\ package_locks' =
          IF package_locks[listers[t].name] = t /\ listers[t].exc = "none"
          THEN [package_locks EXCEPT ![listers[t].name] = "free"]
          ELSE package_locks
    /\ listers' = [listers EXCEPT ![t] =
          IF listers[t].exc = "none" THEN [@ EXCEPT !.pc = "result"]
          ELSE [@ EXCEPT !.pc = "raised"]]
    /\ UNCHANGED <<srvvars, aggvars, fcvars, package_files, locks_made, now, ttl, index_t, index, packages, index_lock, locks_lock,
                   invalidator, nlists>>
\* list_files: the end of its with block, by return or by an exception
Release(t) ==
    /\ listers[t].pc = "release"
    /\ package_locks' =
          IF package_locks[listers[t].name] = t
          THEN [package_locks EXCEPT ![listers[t].name] = "free"]
          ELSE package_locks
    /\ listers' = [listers EXCEPT ![t] =
          IF listers[t].exc = "none" THEN [@ EXCEPT !.pc = "result"]
          ELSE [@ EXCEPT !.pc = "raised"]]
    /\ UNCHANGED <<srvvars, aggvars, fcvars, package_files, locks_made, now, ttl, index_t, index, packages, index_lock, locks_lock,
                   invalidator, nlists>>

\* list_files: return self._packages[package_name].files.values()
Result(t) ==
    /\ listers[t].pc = "result"
    /\ listers' = [listers EXCEPT ![t] =
          IF packages[listers[t].name] = -1
          THEN [@ EXCEPT !.pc = "raised", !.exc = "KeyError"]
          ELSE [@ EXCEPT !.pc = "done"]]
    /\ UNCHANGED <<srvvars, aggvars, fcvars, package_files, locks_made, now, ttl, index_t, index, packages, index_lock, locks_lock,
                   package_locks, invalidator, nlists>>

\* list_files has returned or raised
ListReturn(t) ==
    /\ listers[t].pc \in {"done", "raised"}
    /\ listers' = [listers EXCEPT ![t] = IdleLister]
    /\ UNCHANGED <<srvvars, aggvars, fcvars, package_files, locks_made, now, ttl, index_t, index, packages, index_lock, locks_lock,
                   package_locks, invalidator, nlists>>

\* invalidate_project: self._package_locks[package_name].locked(), the lock
\* made first when the name has none; a held lock ends the call
InvalidateProject ==
    /\ invalidator.pc = "idle"
    /\ nlists < MaxLists
    /\ nlists' = nlists + 1
    /\ \E n \in ICNames :
         /\ package_locks[n] = "none" => locks_lock = "free"
         /\ package_locks' =
               IF package_locks[n] = "none" THEN [package_locks EXCEPT ![n] = "free"]
               ELSE package_locks
         /\ locks_made' =
               IF package_locks[n] = "none" THEN [locks_made EXCEPT ![n] = @ + 1]
               ELSE locks_made
         /\ invalidator' =
               IF package_locks[n] \in {"none", "free"}
               THEN [pc |-> "pop", name |-> n]
               ELSE IdleInvalidator
    /\ UNCHANGED <<srvvars, aggvars, fcvars, package_files, now, ttl, index_t, index, packages, index_lock, locks_lock,
                   listers>>

\* invalidate_project: self._packages.pop(package_name, None)
InvalidatePop ==
    /\ invalidator.pc = "pop"
    /\ packages' = [packages EXCEPT ![invalidator.name] = -1]
    /\ package_files' = [package_files EXCEPT ![invalidator.name] = -1]
    /\ invalidator' = IdleInvalidator
    /\ UNCHANGED <<srvvars, aggvars, fcvars, locks_made, now, ttl, index_t, index, index_lock, locks_lock,
                   package_locks, listers, nlists>>

\* invalidate_list: if self._index_lock.locked(): return
InvalidateList ==
    /\ invalidator.pc = "idle"
    /\ nlists < MaxLists
    /\ nlists' = nlists + 1
    /\ invalidator' =
          IF index_lock = "free" THEN [pc |-> "clear_t", name |-> NoName]
          ELSE IdleInvalidator
    /\ UNCHANGED <<srvvars, aggvars, fcvars, package_files, locks_made, now, ttl, index_t, index, packages, index_lock, locks_lock,
                   package_locks, listers>>

\* invalidate_list: self._index_t = None
InvalidateListStamp ==
    /\ invalidator.pc = "clear_t"
    /\ index_t' = -1
    /\ invalidator' = [invalidator EXCEPT !.pc = "clear_index"]
    /\ UNCHANGED <<srvvars, aggvars, fcvars, package_files, locks_made, now, ttl, index, packages, index_lock, locks_lock,
                   package_locks, listers, nlists>>

\* invalidate_list: self._index = {}
InvalidateListIndex ==
    /\ invalidator.pc = "clear_index"
    /\ index' = {}
    /\ invalidator' = IdleInvalidator
    /\ UNCHANGED <<srvvars, aggvars, fcvars, package_files, locks_made, now, ttl, index_t, packages, index_lock, locks_lock,
                   package_locks, listers, nlists>>

ICNext ==
    \/ Tick
    \/ \E t \in Listers :
         \/ ListFiles(t) \/ LocksCheck(t) \/ LocksLock(t) \/ LocksMake(t) \/ Acquire(t)
         \/ LookupPackage(t) \/ Direct(t) \/ IndexAcquire(t) \/ IndexRefresh(t)
         \/ ViaIndex(t) \/ ParseFile(t) \/ Store(t) \/ Release(t) \/ Result(t) \/ ListReturn(t)
    \/ InvalidateProject
    \/ InvalidatePop

\* list_projects and invalidate_list calls, with the clock
ILNext ==
    \/ Tick
    \/ \E t \in Listers :
         ListProjects(t) \/ IndexAcquire(t) \/ IndexRefresh(t) \/ ListReturn(t)
    \/ InvalidateList
    \/ InvalidateListStamp
    \/ InvalidateListIndex

\* a file cache nobody uses
\* a request handler that has called nothing
IdleAgg ==
    [pc |-> "idle", op |-> "none", file_name |-> <<>>,
     result |-> [kind |-> "none", value |-> <<>>], status |-> 0]

\* a Cache nobody uses
AggIdle == indexes = <<>> /\ agg = IdleAgg

\* a server no request has reached
SrvIdle == upstream = <<>> /\ http = [pc |-> "idle"]

FCIdle ==
    /\ max_size = 0
    /\ files = <<>>
    /\ disk = [k \in AllKeys |-> -1]
    /\ temp = [k \in AllKeys |-> -1]
    /\ workers = <<>>
    /\ callers = [c \in Callers |-> IdleCaller]
    /\ evict_lock = "free"
    /\ ncalls = 0

\* an index cache nobody uses
ICIdle == ICInit /\ ttl = 0 /\ AggIdle /\ SrvIdle

\* a new index cache beside a file cache nobody uses
ICStart == ICInit /\ FCIdle /\ AggIdle /\ SrvIdle

\* concurrent list_files and invalidate_project calls on one _IndexCache
SpecIC == ICStart /\ [][ICNext]_vars

\* concurrent list_projects and invalidate_list calls on one _IndexCache
SpecIL == ICStart /\ [][ILNext]_vars

\* every call on one _IndexCache, concurrently
SpecIX == ICStart /\ [][ICNext \/ ILNext]_vars

\* the calls of SpecIX with the clock standing still
LkNext ==
    \/ \E t \in Listers :
         \/ ListFiles(t) \/ ListProjects(t)
         \/ LocksCheck(t) \/ LocksLock(t) \/ LocksMake(t) \/ Acquire(t)
         \/ LookupPackage(t) \/ Direct(t) \/ IndexAcquire(t) \/ IndexRefresh(t)
         \/ ViaIndex(t) \/ ParseFile(t) \/ Store(t) \/ Release(t) \/ Result(t) \/ ListReturn(t)
    \/ InvalidateProject
    \/ InvalidatePop
    \/ InvalidateList
    \/ InvalidateListStamp
    \/ InvalidateListIndex

\* an index cache that keeps nothing (ttl = 0) beside a file cache nobody uses
LkStart == ICIdle /\ FCIdle

\* every call on one _IndexCache that refreshes at each call, concurrently; a
\* thread that can take a step is scheduled in the end and the requests it
\* makes return
SpecLk == LkStart /\ [][LkNext]_vars /\ WF_vars(LkNext)

(***************************************************************************)
(* Strings, as sequences of characters, and URLs.                          *)
(***************************************************************************)
\* the characters of the model in the order of their code points
CodeOrder ==
    <<"#", "-", ".", "/", "0", "1", "2", "3", "4", "5", "6", "7", "8", "9", ":", "?">>
    \o Uppers \o <<"_">> \o Lowers

RECURSIVE StrLess(_, _)
\* a < b for str: the first differing character decides, a proper prefix is less
StrLess(a, b) ==
    IF b = <<>> THEN FALSE
    ELSE IF a = <<>> THEN TRUE
    ELSE IF Head(a) = Head(b) THEN StrLess(Tail(a), Tail(b))
    ELSE LET ord(ch) == CHOOSE i \in 1..Len(CodeOrder) : CodeOrder[i] = ch
         IN  ord(Head(a)) < ord(Head(b))

\* s[-n:]
LastChars(s, n) == IF Len(s) <= n THEN s ELSE SubSeq(s, Len(s) - n + 1, Len(s))
\* s[:-n]
DropLastChars(s, n) == IF Len(s) <= n THEN <<>> ELSE SubSeq(s, 1, Len(s) - n)

\* s.find of the first character that is in C, Len(s) + 1 when there is none
FindAny(s, C) ==
    IF \E i \in 1..Len(s) : s[i] \in C
    THEN CHOOSE i \in 1..Len(s) : s[i] \in C /\ \A j \in 1..(i - 1) : s[j] \notin C
    ELSE Len(s) + 1

\* the characters a URL scheme is made of (scheme_chars of urllib.parse)
SchemeChars ==
    {Uppers[i] : i \in 1..Len(Uppers)} \cup {Lowers[i] : i \in 1..Len(Lowers)}
    \cup {"0", "1", "2", "3", "4", "5", "6", "7", "8", "9", "+", "-", "."}

\* some schemes of urllib.parse.uses_netloc
UsesNetloc ==
    {<<"h", "t", "t", "p">>, <<"h", "t", "t", "p", "s">>, <<"f", "t", "p">>, <<"f", "i", "l", "e">>}

\* urllib.parse.urlsplit(url): the scheme up to the first ":", the netloc after
\* "//" up to the first of / ? #, the fragment after the first "#", the query
\* after the first "?", and the path that is left
UrlSplit(url) ==
    LET From(s, i) == SubSeq(s, i + 1, Len(s))
        Upto(s, i) == SubSeq(s, 1, i)
        c == FindAny(url, {":"})
        hasScheme == c > 1 /\ c <= Len(url) /\ \A i \in 1..(c - 1) : url[i] \in SchemeChars
        scheme == IF hasScheme THEN [i \in 1..(c - 1) |-> Lower(url[i])] ELSE <<>>
        r1 == IF hasScheme THEN From(url, c) ELSE url
        hasNetloc == Len(r1) >= 2 /\ r1[1] = "/" /\ r1[2] = "/"
        r2 == IF hasNetloc THEN From(r1, 2) ELSE r1
        n == IF hasNetloc THEN FindAny(r2, {"/", "?", "#"}) ELSE 1
        netloc == Upto(r2, n - 1)
        r3 == From(r2, n - 1)
        f == FindAny(r3, {"#"})
        fragment == From(r3, f)
        r4 == Upto(r3, f - 1)
        q == FindAny(r4, {"?"})
    IN  [scheme |-> scheme, netloc |-> netloc, path |-> Upto(r4, q - 1),
         query |-> From(r4, q), fragment |-> fragment]

\* urllib.parse.urlunsplit((scheme, netloc, path, query, fragment))
UrlUnsplit(u) ==
    LET slashed == IF u.path # <<>> /\ u.path[1] # "/" THEN <<"/">> \o u.path ELSE u.path
        withNetloc ==
            IF u.netloc # <<>>
               \/ (u.scheme \in UsesNetloc /\ ~(Len(u.path) >= 2 /\ u.path[1] = "/" /\ u.path[2] = "/"))
            THEN <<"/", "/">> \o u.netloc \o slashed
            ELSE u.path
        withScheme == IF u.scheme # <<>> THEN u.scheme \o <<":">> \o withNetloc ELSE withNetloc
        withQuery == IF u.query # <<>> THEN withScheme \o <<"?">> \o u.query ELSE withScheme
    IN  IF u.fragment # <<>> THEN withQuery \o <<"#">> \o u.fragment ELSE withQuery

(***************************************************************************)
(* Cache: the root index and the extra indexes behind one interface.       *)
(***************************************************************************)
\* the number of extra indexes (PROXPI_EXTRA_INDEX_URLS)
MaxExtras == 2

MetadataSuffix == <<".", "m", "e", "t", "a", "d", "a", "t", "a">>
FileF == <<"f">>
FileFM == FileF \o MetadataSuffix
\* the file names a client asks for; the indexes list files named f and
\* f.metadata
RequestNames == {FileF, FileFM, FileFM \o MetadataSuffix, <<"g">>}
\* what follows the path in the URLs an index gives for its files
UrlTails == {<<>>, <<"?", "q">>, <<"#", "g">>, <<"?", "q", "#", "g">>}
\* the normalised names in the listings of the indexes
ListedNames == {<<"a">>, <<"a", "-", "b">>, <<"a", "b">>}

\* File: name, url and whether the index advertises core metadata for it
\* (data-core-metadata), as from_html_element and from_json_response set
\* them; the i-th index, the root being the first, serves its files from
\* host hi
MakeFile(i, name, tail, adv) ==
    LET digits == <<"1", "2", "3", "4", "5", "6", "7", "8", "9">>
    IN  [name |-> name, core_metadata |-> adv,
         url |-> <<"h", "t", "t", "p", ":", "/", "/", "h", digits[i], "/">> \o name \o tail]

\* what an index has of the project: found is FALSE when its list_files raises
\* NotFound
NoProject == [found |-> FALSE, files |-> <<>>]

\* the file lists an index can have for the project: Package.files is a
\* dict keyed by File.name, so no name comes twice
FileLists(i, tail, adv) ==
    LET f == MakeFile(i, FileF, tail, adv)
        m == MakeFile(i, FileFM, tail, adv)
    IN  {[found |-> TRUE, files |-> fl] : fl \in {<<>>, <<f>>, <<m>>, <<f, m>>, <<m, f>>}}

NotFound == [kind |-> "NotFound", value |-> <<>>]

\* {f.name for f in files}
FileNamesOf(fl) == {fl[i].name : i \in 1..Len(fl)}

\* package.files.get(name)
FileNamed(fl, name) == fl[CHOOSE i \in 1..Len(fl) : fl[i].name = name]

\* _IndexCache.list_files as the Cache sees it
IndexListFiles(ix) ==
    IF ~ix.found THEN NotFound ELSE [kind |-> "files", value |-> ix.files]

\* get_file_url with ".metadata" put at the end of the whole URL
GetFileUrlAppended(ix, file_name) ==
    LET is_metadata == LastChars(file_name, 9) = MetadataSuffix
        name == IF is_metadata THEN DropLastChars(file_name, 9) ELSE file_name
    IN  IF ~ix.found THEN NotFound
        ELSE IF name \notin FileNamesOf(ix.files) THEN NotFound
        ELSE LET url == FileNamed(ix.files, name).url
             IN  [kind |-> "url",
                  value |-> IF is_metadata THEN url \o MetadataSuffix ELSE url]

\* _IndexCache.get_file_url
GetFileUrl(ix, file_name) ==
    LET is_metadata == LastChars(file_name, 9) = MetadataSuffix
        name == IF is_metadata THEN DropLastChars(file_name, 9) ELSE file_name
    IN  IF ~ix.found THEN NotFound
        ELSE IF name \notin FileNamesOf(ix.files) THEN NotFound
        ELSE LET url == FileNamed(ix.files, name).url
                 parts == UrlSplit(url)
             IN  [kind |-> "url",
                  value |-> IF is_metadata
                            THEN UrlUnsplit([parts EXCEPT !.path = @ \o MetadataSuffix])
                            ELSE url]

\* Cache.list_projects: packages = set(root), update with each extra, sorted
RECURSIVE Sorted(_)
Sorted(S) ==
    IF S = {} THEN <<>>
    ELSE LET least == CHOOSE a \in S : \A b \in S \ {a} : StrLess(a, b)
         IN  <<least>> \o Sorted(S \ {least})

\* the listing of the root alone
RootListProjects(ixs) == Sorted(ixs[1].names)

CacheListProjects(ixs) == Sorted(UNION {ixs[i].names : i \in 1..Len(ixs)})

\* files.extend(extra_files), whatever the names
ExtendAll(fl, extra_files) == fl \o extra_files

RECURSIVE ExtendNew(_, _)
\* for file in extra_files: if file.name not in {f.name for f in files}: append
ExtendNew(fl, extra_files) ==
    IF extra_files = <<>> THEN fl
    ELSE ExtendNew(IF Head(extra_files).name \in FileNamesOf(fl)
                   THEN fl
                   ELSE Append(fl, Head(extra_files)),
                   Tail(extra_files))

RECURSIVE ExtendFromExtras(_, _)
\* the loop of Cache.list_files over extra_caches: NotFound is skipped
ExtendFromExtras(fl, extras) ==
    IF extras = <<>> THEN fl
    ELSE ExtendFromExtras(IF ~Head(extras).found
                          THEN fl
                          ELSE ExtendNew(fl, Head(extras).files),
                          Tail(extras))

\* Cache.list_files
CacheListFiles(ixs) ==
    LET exc == IndexListFiles(ixs[1]).kind = "NotFound"
        root_files == IF exc THEN <<>> ELSE ixs[1].files
        all_files == ExtendFromExtras(root_files, Tail(ixs))
    IN  IF all_files = <<>> /\ exc THEN NotFound ELSE [kind |-> "files", value |-> all_files]

RECURSIVE UrlFromExtras(_, _, _)
\* the loop of Cache.get_file over extra_caches: every extra is asked, and
\* each one that resolves assigns url
UrlFromExtras(url, extras, file_name) ==
    IF extras = <<>> THEN url
    ELSE LET r == GetFileUrl(Head(extras), file_name)
         IN  UrlFromExtras(IF r.kind = "NotFound" THEN url ELSE r, Tail(extras), file_name)

\* the root alone is asked
RootGetFileUrl(ixs, file_name) == GetFileUrl(ixs[1], file_name)

\* Cache.get_file up to the call of file_cache.get
CacheGetFileUrl(ixs, file_name) ==
    LET url == GetFileUrl(ixs[1], file_name)
    IN  IF url.kind = "NotFound" THEN UrlFromExtras(url, Tail(ixs), file_name) ELSE url

\* the indexes of a Cache and a request for it
AggInit ==
    \/ \E tail \in UrlTails, adv \in BOOLEAN :
         \E fs \in [1..(1 + MaxExtras) ->
                      {NoProject}
                      \cup UNION {FileLists(i, tail, adv) : i \in 1..(1 + MaxExtras)}] :
           /\ \A i \in 1..(1 + MaxExtras) :
                fs[i] = NoProject \/ fs[i] \in FileLists(i, tail, adv)
           /\ indexes = [i \in 1..(1 + MaxExtras) |->
                           [names |-> {}, found |-> fs[i].found, files |-> fs[i].files]]
           /\ \/ \E n \in RequestNames :
                   agg = [IdleAgg EXCEPT !.pc = "call", !.op = "get_file", !.file_name = n]
              \/ agg = [IdleAgg EXCEPT !.pc = "call", !.op = "list_files"]
    \/ \E ns \in [1..(1 + MaxExtras) -> SUBSET ListedNames] :
         /\ indexes = [i \in 1..(1 + MaxExtras) |->
                         [names |-> ns[i], found |-> FALSE, files |-> <<>>]]
         /\ agg = [IdleAgg EXCEPT !.pc = "call", !.op = "list_projects"]

\* server.list_packages calls Cache.list_projects
AggListProjects ==
    /\ agg.pc = "call" /\ agg.op = "list_projects"
    /\ agg' = [agg EXCEPT !.pc = "done",
                          !.result = [kind |-> "names", value |-> CacheListProjects(indexes)]]
    /\ UNCHANGED <<srvvars, fcvars, icvars, indexes>>

\* server.list_files calls Cache.list_files
AggListFiles ==
    /\ agg.pc = "call" /\ agg.op = "list_files"
    /\ agg' = [agg EXCEPT !.pc = "done", !.result = CacheListFiles(indexes)]
    /\ UNCHANGED <<srvvars, fcvars, icvars, indexes>>

\* server.get_file calls Cache.get_file: the URL is resolved, and only a
\* resolved URL goes to file_cache.get
AggGetFile ==
    /\ agg.pc = "call" /\ agg.op = "get_file"
    /\ LET url == CacheGetFileUrl(indexes, agg.file_name)
       IN  IF url.kind = "NotFound"
           THEN /\ agg' = [agg EXCEPT !.pc = "done", !.result = NotFound]
                /\ UNCHANGED fcvars
           ELSE /\ \E c \in Callers :
                     /\ callers[c].pc = "idle"
                     /\ callers' = [callers EXCEPT
                                      ![c] = GetEntry([IdleCaller EXCEPT !.url = url.value])]
                     /\ agg' = [agg EXCEPT
                                  !.pc = IF callers'[c].pc = "ret" THEN "done" ELSE "get",
                                  !.result = [kind |-> "path", value |-> url.value]]
                /\ ncalls' = ncalls + 1
                /\ UNCHANGED <<conf, files, disk, temp, workers, evict_lock>>
    /\ UNCHANGED <<srvvars, icvars, indexes>>

\* the handlers of server.py answer: 404 on NotFound, a redirect to a path
\* that is a URL with a scheme other than file, 200 otherwise
AggRespond ==
    /\ agg.pc = "done"
    /\ agg' = [agg EXCEPT
                 !.pc = "responded",
                 !.status = IF agg.result.kind = "NotFound" THEN 404
                            ELSE IF /\ agg.result.kind = "path"
                                    /\ UrlSplit(agg.result.value).scheme
                                         \notin {<<>>, <<"f", "i", "l", "e">>}
                                 THEN 302
                                 ELSE 200]
    /\ UNCHANGED <<srvvars, fcvars, icvars, indexes>>

AggNext == AggListProjects \/ AggListFiles \/ AggGetFile \/ AggRespond

\* a Cache over a disabled file cache, with an index cache nobody uses
AggStart == AggInit /\ FCIdle /\ ICInit /\ ttl = 0 /\ SrvIdle

\* one request to a Cache whose indexes have any contents
SpecAgg == AggStart /\ [][AggNext]_vars

(***************************************************************************)
(* File: parsing what an index sends and serialising it for a client.      *)
(***************************************************************************)
\* Python values: None, True, False, a str (v) or a dict (h, its items in
\* order); Missing is a key a dict does not have
None == [t |-> "none", v |-> <<>>, h |-> <<>>]
Missing == [t |-> "missing", v |-> <<>>, h |-> <<>>]
Bool(b) == [t |-> IF b THEN "true" ELSE "false", v |-> <<>>, h |-> <<>>]
Str(s) == [t |-> "str", v |-> s, h |-> <<>>]
Dict(items) == [t |-> "dict", v |-> <<>>, h |-> items]

\* bool(x)
Truthy(x) == x.t = "true" \/ (x.t = "str" /\ x.v # <<>>) \/ (x.t = "dict" /\ x.h # <<>>)

\* d.get(key): None for a key the dict does not have
Get(d, key) == IF d[key].t = "missing" THEN None ELSE d[key]

\* a or b
Or(a, b) == IF Truthy(a) THEN a ELSE b

\* hash_string.split("="): the pieces between the "=" characters
RECURSIVE SplitEq(_)
SplitEq(s) ==
    LET e == FindAny(s, {"="})
    IN  IF e > Len(s) THEN <<s>>
        ELSE <<SubSeq(s, 1, e - 1)>> \o SplitEq(SubSeq(s, e + 1, Len(s)))

\* FileFromHTML._parse_hash: the unpacking of the split into two names raises
\* ValueError unless there are exactly two pieces
ParseHash(hash_string) ==
    IF \A i \in 1..Len(hash_string) : hash_string[i] # "=" THEN Dict(<<>>)
    ELSE IF Len(SplitEq(hash_string)) = 2
         THEN Dict(<< <<SplitEq(hash_string)[1], SplitEq(hash_string)[2]>> >>)
         ELSE [t |-> "ValueError", v |-> <<>>, h |-> <<>>]

\* FileFromJSON._stringify_hashes: sha256 if there, else the first item
StringifyHashes(hashes) ==
    LET sha == <<"s", "h", "a", "2", "5", "6">>
    IN  IF hashes.h = <<>> THEN <<>>
        ELSE IF \E i \in 1..Len(hashes.h) : hashes.h[i][1] = sha
             THEN LET i == CHOOSE i \in 1..Len(hashes.h) : hashes.h[i][1] = sha
                  IN  sha \o <<"=">> \o hashes.h[i][2]
             ELSE hashes.h[1][1] \o <<"=">> \o hashes.h[1][2]

\* the attributes of an anchor other than href that the parser reads
AttrKeys ==
    {"data-requires-python", "data-core-metadata", "data-dist-info-metadata",
     "data-gpg-sig", "data-yanked"}

RECURSIVE DirOf(_)
\* the path up to and with its last "/"
DirOf(path) ==
    IF path = <<>> \/ path[Len(path)] = "/" THEN path
    ELSE DirOf(SubSeq(path, 1, Len(path) - 1))

\* urllib.parse.urljoin(request_url, href) for an href that is a whole URL or
\* a path relative to the directory of the page
UrlJoin(request_url, href) ==
    IF UrlSplit(href).scheme # <<>> THEN href
    ELSE UrlUnsplit([scheme |-> UrlSplit(request_url).scheme,
                     netloc |-> UrlSplit(request_url).netloc,
                     path |-> DirOf(UrlSplit(request_url).path) \o UrlSplit(href).path,
                     query |-> UrlSplit(href).query,
                     fragment |-> UrlSplit(href).fragment])

\* from_html_element keeping the attributes as the anchor has them
FromHtmlElementAsIs(el, request_url) ==
    LET url == UrlJoin(request_url, el.href)
    IN  [cls |-> "html", name |-> el.text, url |-> url,
         fragment |-> UrlSplit(url).fragment, attributes |-> el.attrib]

\* FileFromHTML.from_html_element
FromHtmlElement(el, request_url) ==
    LET url == UrlJoin(request_url, el.href)
        core == el.attrib["data-core-metadata"]
        dist == el.attrib["data-dist-info-metadata"]
    IN  [cls |-> "html", name |-> el.text, url |-> url,
         fragment |-> UrlSplit(url).fragment,
         attributes |->
             IF core.t # "missing"
             THEN [el.attrib EXCEPT !["data-dist-info-metadata"] = core]
             ELSE IF dist.t # "missing"
                  THEN [el.attrib EXCEPT !["data-core-metadata"] = dist]
                  ELSE el.attrib]

\* from_json_response reading the metadata marker from the old key only
FromJsonResponseOldKey(data, request_url) ==
    [cls |-> "json", name |-> data["filename"].v,
     url |-> UrlJoin(request_url, data["url"].v),
     hashes |-> data["hashes"],
     requires_python |-> Get(data, "requires-python"),
     dist_info_metadata |-> Get(data, "dist-info-metadata"),
     gpg_sig |-> Get(data, "gpg-sig"),
     yanked |-> Get(data, "yanked")]

\* FileFromJSON.from_json_response
FromJsonResponse(data, request_url) ==
    [cls |-> "json", name |-> data["filename"].v,
     url |-> UrlJoin(request_url, data["url"].v),
     hashes |-> data["hashes"],
     requires_python |-> Get(data, "requires-python"),
     dist_info_metadata |-> Or(Get(data, "core-metadata"), Get(data, "dist-info-metadata")),
     gpg_sig |-> Get(data, "gpg-sig"),
     yanked |-> Get(data, "yanked")]

\* File.hashes
Hashes(file) == IF file.cls = "html" THEN ParseHash(file.fragment) ELSE file.hashes

\* File.requires_python
RequiresPython(file) ==
    IF file.cls = "html"
    THEN Or(Get(file.attributes, "data-requires-python"), None)
    ELSE file.requires_python

\* File.dist_info_metadata
DistInfoMetadata(file) ==
    IF file.cls = "html"
    THEN LET metadata == Get(file.attributes, "data-core-metadata")
             hashes == ParseHash(metadata.v)
         IN  IF metadata.t = "none" THEN None
             ELSE IF hashes.t = "dict" /\ hashes.h = <<>> THEN Bool(TRUE)
             ELSE hashes
    ELSE file.dist_info_metadata

\* File.gpg_sig
GpgSig(file) ==
    IF file.cls = "html"
    THEN LET has_gpg_sig == Get(file.attributes, "data-gpg-sig")
         IN  IF ~Truthy(has_gpg_sig) THEN has_gpg_sig
             ELSE Bool(has_gpg_sig.v = <<"t", "r", "u", "e">>)
    ELSE file.gpg_sig

\* File.yanked
Yanked(file) ==
    IF file.cls = "html"
    THEN Bool(Get(file.attributes, "data-yanked").t # "none")
    ELSE file.yanked

\* File.attributes
Attributes(file) ==
    IF file.cls = "html" THEN file.attributes
    ELSE LET metadata ==
                 IF file.dist_info_metadata.t = "dict"
                 THEN Str(StringifyHashes(file.dist_info_metadata))
                 ELSE Str(<<>>)
         IN  [k \in AttrKeys |->
                CASE k = "data-requires-python" ->
                       IF Truthy(file.requires_python) THEN file.requires_python ELSE Missing
                  [] k \in {"data-core-metadata", "data-dist-info-metadata"} ->
                       IF Truthy(file.dist_info_metadata) THEN metadata ELSE Missing
                  [] k = "data-gpg-sig" ->
                       IF file.gpg_sig.t = "none" THEN Missing
                       ELSE IF Truthy(file.gpg_sig) THEN Str(<<"t", "r", "u", "e">>)
                       ELSE Str(<<"f", "a", "l", "s", "e">>)
                  [] k = "data-yanked" ->
                       IF ~Truthy(file.yanked) THEN Missing
                       ELSE IF file.yanked.t = "str" THEN file.yanked
                       ELSE Str(<<>>)]

\* the keys of a JSON file object
JsonKeys ==
    {"filename", "url", "hashes", "requires-python", "core-metadata",
     "dist-info-metadata", "gpg-sig", "yanked"}

\* a value that is None leaves its key out
IfNotNone(x) == IF x.t = "none" THEN Missing ELSE x

\* File.to_json_response
ToJsonResponse(file) ==
    [k \in JsonKeys |->
       CASE k = "filename" -> Str(file.name)
         [] k = "hashes" -> Hashes(file)
         [] k = "requires-python" -> IfNotNone(RequiresPython(file))
         [] k = "core-metadata" -> IfNotNone(DistInfoMetadata(file))
         [] k = "gpg-sig" -> IfNotNone(GpgSig(file))
         [] k = "yanked" -> IfNotNone(Yanked(file))
         [] OTHER -> Missing]

(***************************************************************************)
(* server.py: content negotiation and the file listing of a project.       *)
(***************************************************************************)
JsonV1 == "application/vnd.pypi.simple.v1+json"
JsonLatest == "application/vnd.pypi.simple.latest+json"
\* html_keys of _wants_json
HtmlKeys ==
    {"text/html", "application/vnd.pypi.simple.v1+html",
     "application/vnd.pypi.simple.latest+html"}

\* the media ranges of the Accept headers the clients send, each with a
\* quality in tenths or -1 when the header does not have it
AcceptRanges == {JsonV1, JsonLatest, "*/*"} \cup HtmlKeys
Qualities == {-1, 0, 5, 10}
\* the values of the format query argument, "" for none
Formats == {"", JsonV1, JsonLatest, "text/html", "application/vnd.pypi.simple.v1+html",
            "application/vnd.pypi.simple.v42+xml"}

\* flask.request.accept_mimetypes.quality(key): the quality of the most
\* specific range of the header that matches key, 0 when none does
Quality(accept, key) ==
    IF accept[key] # -1 THEN accept[key]
    ELSE IF accept["*/*"] # -1 THEN accept["*/*"]
    ELSE 0

Max(S) == CHOOSE x \in S : \A y \in S : y <= x

\* _wants_json(version) with JSON chosen whenever it is no less preferred
\* than every HTML type
WantsJsonVersionTie(json_key, format, accept) ==
    LET json_quality == Quality(accept, json_key)
        html_quality == Max({Quality(accept, k) : k \in HtmlKeys})
    IN  IF format # "" /\ format = json_key THEN "json"
        ELSE IF format # "" /\ format \in HtmlKeys THEN "html"
        ELSE IF json_quality = 0 /\ html_quality = 0 THEN "406"
        ELSE IF json_quality # 0 /\ json_quality >= html_quality THEN "json"
        ELSE "html"

\* _wants_json(version) after its attempt with the latest version: "json"
\* for a true result, "html" for a false one, "406" for abort(406)
WantsJsonVersion(json_key, format, accept) ==
    LET json_quality == Quality(accept, json_key)
        html_quality == Max({Quality(accept, k) : k \in HtmlKeys})
        iana_html_quality == Quality(accept, "text/html")
    IN  IF format # "" /\ format = json_key THEN "json"
        ELSE IF format # "" /\ format \in HtmlKeys THEN "html"
        ELSE IF json_quality = 0 /\ html_quality = 0 THEN "406"
        ELSE IF /\ json_quality # 0
                /\ json_quality >= html_quality
                /\ json_quality > iana_html_quality
             THEN "json"
             ELSE "html"

\* _wants_json(): the latest version is tried first, its NotAcceptable is
\* dropped
WantsJson(format, accept) ==
    IF WantsJsonVersion(JsonLatest, format, accept) = "json" THEN "json"
    ELSE WantsJsonVersion(JsonV1, format, accept)

\* the page of the project the files are parsed from
PageUrl == <<"h", "t", "t", "p", ":", "/", "/", "h", "1", "/", "p", "/">>
Sha(x) == <<"s", "h", "a", "2", "5", "6", "=", x>>

\* the anchors an HTML project page can hold for the file f
HtmlElements ==
    {[kind |-> "html", text |-> FileF, href |-> href,
      attrib |-> [k \in AttrKeys |->
                    CASE k = "data-requires-python" -> rp
                      [] k = "data-core-metadata" -> cm
                      [] k = "data-dist-info-metadata" -> dm
                      [] k = "data-gpg-sig" -> gs
                      [] k = "data-yanked" -> y]] :
        href \in {<<"f">>,
                  <<"h", "t", "t", "p", ":", "/", "/", "h", "2", "/", "f", "#">> \o Sha("a"),
                  <<"f", "#">> \o Sha("a") \o <<"=", "=">>},
        rp \in {Missing, Str(<<"r">>)},
        cm \in {Missing, Str(<<>>), Str(Sha("a"))},
        dm \in {Missing, Str(<<"t", "r", "u", "e">>), Str(Sha("b"))},
        gs \in {Missing, Str(<<>>), Str(<<"t", "r", "u", "e">>)},
        y \in {Missing, Str(<<>>), Str(<<"r">>)}}

\* the file objects a JSON project page can hold for the file f
JsonElements ==
    LET a == Dict(<< <<<<"s", "h", "a", "2", "5", "6">>, <<"a">>>> >>)
        b == Dict(<< <<<<"s", "h", "a", "2", "5", "6">>, <<"b">>>> >>)
    IN  {[kind |-> "json",
          data |-> [k \in JsonKeys |->
                      CASE k = "filename" -> Str(FileF)
                        [] k = "url" -> Str(<<"h", "t", "t", "p", ":", "/", "/", "h", "2", "/", "f">>)
                        [] k = "hashes" -> hs
                        [] k = "requires-python" -> rp
                        [] k = "core-metadata" -> cm
                        [] k = "dist-info-metadata" -> dm
                        [] k = "gpg-sig" -> gs
                        [] k = "yanked" -> y]] :
           hs \in {Dict(<<>>), a},
           rp \in {Missing, Str(<<"r">>)},
           cm \in {Missing, Bool(FALSE), Bool(TRUE), a},
           dm \in {Missing, Bool(TRUE), b},
           gs \in {Missing, Bool(TRUE), Bool(FALSE)},
           y \in {Missing, Bool(FALSE), Bool(TRUE), Str(<<"r">>)}}

\* a request for the files of a project: any Accept header and format for
\* one plain file, or any file asked for in JSON or in HTML
SrvInit ==
    \/ /\ upstream \in {e \in HtmlElements :
                          e.href = <<"f">> /\ \A k \in AttrKeys : e.attrib[k] = Missing}
       /\ \E format \in Formats, accept \in [AcceptRanges -> Qualities] :
            http = [pc |-> "request", format |-> format, accept |-> accept]
    \/ /\ upstream \in HtmlElements \cup JsonElements
       /\ \E format \in {JsonV1, "text/html"} :
            http = [pc |-> "request", format |-> format,
                    accept |-> [r \in AcceptRanges |-> -1]]

\* server.list_files: cache.list_files gives the File parsed from the page
SrvListFiles ==
    /\ http.pc = "request"
    /\ http' = [pc |-> "negotiate", format |-> http.format, accept |-> http.accept,
                file |-> IF upstream.kind = "html"
                         THEN FromHtmlElement(upstream, PageUrl)
                         ELSE FromJsonResponse(upstream.data, PageUrl)]
    /\ UNCHANGED <<fcvars, icvars, aggvars, upstream>>

\* server.list_files: _wants_json() chooses the representation or aborts
SrvWantsJson ==
    /\ http.pc = "negotiate"
    /\ LET wants == WantsJson(http.format, http.accept)
       IN  http' = [pc |-> IF wants = "406" THEN "responded" ELSE "render",
                    format |-> http.format, accept |-> http.accept, file |-> http.file,
                    wants |-> wants, status |-> IF wants = "406" THEN 406 ELSE 0]
    /\ UNCHANGED <<fcvars, icvars, aggvars, upstream>>

\* the file object with the URL the index gave
JsonFileDataUpstream(file) == [ToJsonResponse(file) EXCEPT !["url"] = Str(file.url)]

\* the file object server.list_files puts in a JSON listing
JsonFileData(file) == [ToJsonResponse(file) EXCEPT !["url"] = Str(file.name)]

\* server.list_files: the file in the JSON listing, or what the template
\* files.html gets for it; a ValueError of the parser is a 500
SrvRender ==
    /\ http.pc = "render"
    /\ LET raises == /\ http.wants = "json"
                     /\ \E k \in JsonKeys : JsonFileData(http.file)[k].t = "ValueError"
       IN  http' = [pc |-> "responded", format |-> http.format, accept |-> http.accept,
                    file |-> http.file, wants |-> http.wants,
                    status |-> IF raises THEN 500 ELSE 200,
                    body |-> IF raises THEN <<>>
                             ELSE IF http.wants = "json" THEN JsonFileData(http.file)
                             ELSE Attributes(http.file)]
    /\ UNCHANGED <<fcvars, icvars, aggvars, upstream>>

\* a proxpi that has this server as its index parses the file object of the
\* JSON listing it was sent (_list_files, the JSON branch)
SrvReparse ==
    /\ http.pc = "responded" /\ http.status = 200 /\ http.wants = "json"
    /\ http' = [pc |-> "reparsed", format |-> http.format, accept |-> http.accept,
                file |-> http.file, wants |-> http.wants, status |-> http.status,
                body |-> http.body,
                parsed |-> FromJsonResponse(http.body, PageUrl)]
    /\ UNCHANGED <<fcvars, icvars, aggvars, upstream>>

SrvNext == SrvListFiles \/ SrvWantsJson \/ SrvRender \/ SrvReparse

\* a server with caches nobody else uses
SrvStart == SrvInit /\ FCIdle /\ ICInit /\ ttl = 0 /\ AggIdle

\* one request for the file listing of a project
SpecSrv == SrvStart /\ [][SrvNext]_vars

(***************************************************************************)
(* The file cache under concurrent get calls.                              *)
(***************************************************************************)
FCNextWith(faults) ==
    \/ \E c \in Callers :
         \/ Call(c) \/ WaitRead(c) \/ Join(c) \/ Recheck(c) \/ CachedCheck(c)
         \/ CachedRead(c) \/ HitStore(c) \/ StartDownloading(c)
         \/ EvictScan(c, faults) \/ EvictStep(c) \/ Return(c)
    \/ \E w \in 1..MaxWorkers :
         \/ WAttempt(w, faults) \/ WRename(w, faults) \/ WPublish(w)

\* upstream and the file system work
FCNext == FCNextWith(FALSE)

\* requests and file operations may fail, and so may a download thread
FCFaultyNext ==
    \/ FCNextWith(TRUE)
    \/ \E c \in Callers : Handler(c) \/ HandlerPop(c)

\* a new file cache beside an index cache nobody uses
FCStart == FCInit /\ ICIdle

\* concurrent get calls, upstream and the file system working
SpecFC == FCStart /\ [][FCNext]_vars
\* concurrent get calls, requests and file operations failing
SpecFCFaulty == FCStart /\ [][FCFaultyNext]_vars

\* the files of several indexes asked for
FKNext == FCNext \/ \E c \in Callers : CallAlias(c)

\* concurrent get calls for the files of several indexes
SpecFK == FCStart /\ [][FKNext]_vars

(***************************************************************************)
(* _evict_lfu alone: one pass over any contents of _files.                 *)
(***************************************************************************)
\* what _files holds for a URL: a download thread or a file with size and hits
EvShapes ==
    {[kind |-> "thread", size |-> 0, n_hits |-> 0]}
    \cup [kind : {"cached"}, size : 0..MaxFileSize, n_hits : 0..MaxHits]

\* the orders in which the entries of all of EvUrls may have been inserted
EvOrders == {s \in Walks(EvUrls) : Len(s) = Cardinality(EvUrls)}

\* the number, among the first i entries, of those that are threads
ThreadNo(order, shape, i) ==
    Cardinality({j \in 1..i : shape[order[j]].kind = "thread"})

\* _files with the entries of shape inserted in order
EvFiles(order, shape) ==
    [i \in 1..Len(order) |->
        IF shape[order[i]].kind = "thread"
        THEN ThreadEntry(GetKey(order[i]), ThreadNo(order, shape, i))
        ELSE CachedFile(GetKey(order[i]), 0, shape[order[i]].size, shape[order[i]].n_hits)]

\* the threads of those entries, each downloading its URL
EvWorkers(order, shape) ==
    [w \in 1..ThreadNo(order, shape, Len(order)) |->
        NewWorker(order[CHOOSE i \in 1..Len(order) :
                            shape[order[i]].kind = "thread" /\ ThreadNo(order, shape, i) = w])]

\* a get call is about to run _evict_lfu(url) over a cache that holds, for every
\* URL, a file or a download thread
EvInit ==
    /\ max_size \in 1..MaxBudget
    /\ \E order \in EvOrders, shape \in [EvUrls -> EvShapes] :
         /\ files = EvFiles(order, shape)
         /\ workers = EvWorkers(order, shape)
         /\ disk = [k \in AllKeys |->
                      IF IsCached(EvFiles(order, shape), k)
                      THEN Lookup(EvFiles(order, shape), k).size ELSE -1]
    /\ temp = [k \in AllKeys |-> -1]
    /\ \E u \in EvUrls :
         callers = [c \in Callers |->
                       IF c = "c1" THEN [IdleCaller EXCEPT !.pc = "lock", !.url = u]
                       ELSE IdleCaller]
    /\ evict_lock = "free"
    /\ ncalls = MaxCalls

EvNext == \E c \in Callers : EvictScan(c, TRUE) \/ EvictStep(c)

\* the file cache before a pass of _evict_lfu, beside an index cache nobody uses
EvStart == EvInit /\ ICIdle

SpecEvict == EvStart /\ [][EvNext]_vars

(***************************************************************************)
(* The file cache: properties.                                             *)
(***************************************************************************)
\* the download threads that have not ended and download to key k
InFlight(k) == {w \in 1..Len(workers) : WKey(w) = k /\ ~WorkerDone(w)}

\* the bytes of the _CachedFile entries of _files
CachedBytes == SumSizes(files, CachedKeys(files))

\* no get call and no download is in progress
Settled ==
    /\ \A c \in Callers : callers[c].pc = "idle"
    /\ \A w \in 1..Len(workers) : WorkerDone(w)

\* C1: for every cache key at most one download thread is in flight at a time.
C1_SingleFlight == \A k \in FCKeys : Cardinality(InFlight(k)) <= 1

\* C2: when a get call returns because the download it waited for failed, the
\* failed thread is no longer the entry of its key.
C2_FailedEntryRemoved ==
    \A c \in Callers :
        (callers[c].pc = "ret" /\ callers[c].jout = "failed")
            => ~(IsThread(files, Key(c)) /\ Lookup(files, Key(c)).id = callers[c].handle)

\* C3: with max_size > 0, whenever no get call and no download is in progress
\* the sizes of the _CachedFile entries sum to at most max_size.
C3_WithinBudget == (max_size > 0 /\ Settled) => CachedBytes <= max_size

\* C4: when get returns a local path, a file is at that path and its length is
\* the size of the _CachedFile entry the path was read from.
C4_ReturnedPathExists ==
    \A c \in Callers :
        (callers[c].pc = "ret" /\ callers[c].res = "path")
            => disk[Key(c)] = callers[c].osize

\* C5: a get call whose wait ended with the download failed or not finished
\* raises nothing, and after a failed download it returns the URL.
C5_GivesUpWithUrl ==
    \A c \in Callers :
        /\ callers[c].jout \in {"failed", "timeout"} => callers[c].pc # "raised"
        /\ (callers[c].jout = "failed" /\ callers[c].pc = "ret") => callers[c].res = "url"

\* C6: one get call waits for a download at most once.
C6_WaitsOnce == \A c \in Callers : callers[c].joins <= 1

\* C7: between the load and the store of file.n_hits += 1 the entry's n_hits
\* is the value loaded, so that the call adds exactly one to it.
C7_HitCountsOnce ==
    \A c \in Callers :
        (callers[c].pc = "hit_store" /\ IsCached(files, Key(c))
            /\ Lookup(files, Key(c)).id = callers[c].obj)
            => Lookup(files, Key(c)).n_hits = callers[c].nh

\* C8: with max_size = 0 no step changes _files, the cache directory, the
\* download threads or the eviction lock, and every get call returns its URL
\* at once.
C8_DisabledCacheIsInert ==
    [][max_size = 0 =>
          /\ UNCHANGED <<files, disk, temp, workers, evict_lock>>
          /\ \A c \in Callers :
                /\ callers'[c].pc \in {"idle", "ret"}
                /\ callers'[c].pc = "ret" => callers'[c].res = "url"]_vars

\* a get call of a cache that is switched off, over a directory that holds
\* files, is about to return
C8_Witness ==
    /\ max_size = 0
    /\ files # <<>>
    /\ \E c \in Callers : callers[c].pc = "ret" /\ callers[c].res = "url"

\* the keys whose entry a step removes from _files
Evicted == {k \in AllKeys : Has(files, k) /\ ~Has(files', k)}

\* entry a is evicted no later than entry b: fewer hits, or as many and no larger
EvictedBefore(a, b) ==
    a.n_hits < b.n_hits \/ (a.n_hits = b.n_hits /\ a.size <= b.size)

\* what C9 says of every eviction: a step removes at most one entry, that entry
\* is a _CachedFile, existing + anticipated was over max_size, no other
\* _CachedFile has fewer hits or as many hits and a smaller size, nothing else
\* of _files changes and the file is deleted
EvictsColdest ==
    /\ Cardinality(Evicted) <= 1
    /\ \A k \in Evicted :
          /\ Lookup(files, k).kind = "cached"
          /\ evict_lock \in Callers
          /\ CachedBytes + callers[evict_lock].file_size > max_size
          /\ \A i \in 1..Len(files) :
                files[i].kind = "cached" => EvictedBefore(Lookup(files, k), files[i])
          /\ files' = Pop(files, k)
          /\ disk[k] # -1 /\ disk'[k] = -1
    /\ Evicted = {} => files' = files /\ disk' = disk

\* a step ends the pass of caller c
PassEnds(c) == callers[c].pc = "evict" /\ callers'[c].pc # "evict"

\* C9 (amended): every eviction of _evict_lfu is as EvictsColdest says, and a
\* pass ends, without an exception, only when existing + anticipated <= max_size
\* or the _CachedFile entries that remain hold no bytes.
C9_EvictLfu ==
    [][/\ EvictsColdest
       /\ \A c \in Callers : PassEnds(c) =>
             /\ callers'[c].pc # "raised"
             /\ \/ CachedBytes + callers[c].file_size <= max_size
                \/ CachedBytes = 0]_vars

\* C9 as stated: every eviction of _evict_lfu is as EvictsColdest says, and a
\* pass ends, without an exception, only when existing + anticipated <= max_size
\* or no _CachedFile entry remains.
C9_EvictLfuAsStated ==
    [][/\ EvictsColdest
       /\ \A c \in Callers : PassEnds(c) =>
             /\ callers'[c].pc # "raised"
             /\ \/ CachedBytes + callers[c].file_size <= max_size
                \/ CachedKeys(files) = <<>>]_vars

\* a pass over three files has evicted the two with the fewest hits and ended
\* with the third, the most hit, still cached
C9_Witness ==
    /\ callers["c1"].pc = "wait"
    /\ Len(files) = 1
    /\ files[1].kind = "cached" /\ files[1].n_hits = MaxHits /\ files[1].size > 0
    /\ \A k \in AllKeys : k # files[1].key => disk[k] = -1

(***************************************************************************)
(* The index cache: properties.                                            *)
(***************************************************************************)
\* the threads inside the with block of list_files for project n: running
\* _list_files or about to leave the block
Refreshing(n) ==
    {t \in Listers : listers[t].name = n /\
        listers[t].pc \in {"lookup", "direct", "index_acquire", "index_refresh",
                           "via_index", "store", "release"}}

\* a step in which list_files call t sends a request for its project's page
SendsRequest(t) == listers'[t].reqs > listers[t].reqs

\* C10 (amended): at most one thread at a time runs _list_files for a project
\* name, and a list_files call sends a request for the project only while
\* _packages holds no entry for it younger than ttl: a call that waited for the
\* mutex reuses the entry stored meanwhile if that entry is still there and
\* still younger than ttl when the call holds the mutex.
C10_RefreshExclusive ==
    [][/\ \A n \in ICNames : Cardinality(Refreshing(n))' <= 1
       /\ \A t \in Listers : SendsRequest(t) =>
             ~IsFresh(packages[listers[t].name], now, ttl)]_vars

\* C10 as stated: at most one thread at a time runs _list_files for a project
\* name, and a list_files call that waited for the mutex while another call
\* stored a refreshed entry sends no request for the project.
C10_RefreshExclusiveAsStated ==
    /\ \A n \in ICNames : Cardinality(Refreshing(n)) <= 1
    /\ \A t \in Listers : listers[t].refreshed => listers[t].reqs = 0

\* a list_files call that waited for the mutex while another call refreshed
\* the project has returned the entry without sending a request
C10_Witness ==
    \E t \in Listers :
        /\ listers[t].pc = "done"
        /\ listers[t].refreshed
        /\ listers[t].reqs = 0
        /\ ttl > 0

\* the threads inside the with block of list_projects: running _list_packages
ListingRefreshing == {t \in Listers : listers[t].pc = "index_refresh"}

\* a step in which call t sends a request for the project list
SendsListingRequest(t) == listers'[t].ireqs > listers[t].ireqs

\* C11 (amended): at most one thread at a time runs _list_packages, and a
\* request for the project list is sent only while the list is missing or not
\* younger than ttl: callers that waited for the mutex while the list was
\* refreshed send no request of their own if the list is still younger than
\* ttl when they hold the mutex.
C11_ListingExclusive ==
    [][/\ Cardinality(ListingRefreshing)' <= 1
       /\ \A t \in Listers : SendsListingRequest(t) =>
             ~IndexIsFresh(index_t, now, ttl)]_vars

\* C11 as stated: at most one thread at a time runs _list_packages, and a
\* caller that waited for the mutex while another caller's listing request
\* succeeded sends no listing request.
C11_ListingExclusiveAsStated ==
    /\ Cardinality(ListingRefreshing) <= 1
    /\ \A t \in Listers : listers[t].irefreshed => listers[t].ireqs = 0

\* a list_projects call that waited for the mutex while the list was refreshed
\* has returned without a request of its own
C11_Witness ==
    \E t \in Listers :
        /\ listers[t].op = "projects"
        /\ listers[t].pc = "done"
        /\ listers[t].irefreshed
        /\ listers[t].ireqs = 0
        /\ listers[t].ifresh = "yes"

\* an item stamped at stamp exists and its age is strictly less than ttl
YoungerThanTtl(stamp) == stamp # -1 /\ now - stamp < ttl

\* C12: a list_files call takes the cached Package, and a list_projects call
\* the cached project list, without a request exactly when the item exists
\* and its age is strictly less than ttl as the call tests it; a call that
\* returns without having contacted upstream found its item fresh, and a call
\* that found its Package fresh contacts upstream for nothing.
C12_ServesWhileFresh ==
    [][\A t \in Listers :
          /\ (listers[t].pc = "lookup" /\ listers'[t].pc # "lookup") =>
                ((listers'[t].pc = "release") <=> YoungerThanTtl(packages[listers[t].name]))
          /\ (listers[t].pc = "index_refresh" /\ listers'[t].pc # "index_refresh") =>
                ((listers'[t].ireqs = listers[t].ireqs) <=> YoungerThanTtl(index_t))
          /\ (listers'[t].pc = "done" /\ listers'[t].reqs + listers'[t].ireqs = 0) =>
                \/ listers'[t].fresh = "yes"
                \/ listers'[t].op = "projects" /\ listers'[t].ifresh = "yes"
          /\ listers'[t].fresh = "yes" => listers'[t].reqs + listers'[t].ireqs = 0]_vars

\* a list_files call has served a Package of age 1 without a request, ttl
\* being 2
C12_Witness ==
    \E t \in Listers :
        /\ listers[t].pc = "done"
        /\ listers[t].op = "files"
        /\ listers[t].fresh = "yes"
        /\ listers[t].reqs + listers[t].ireqs = 0
        /\ packages[listers[t].name] # -1
        /\ now - packages[listers[t].name] = 1

\* a step in which an invalidation call finds its mutex held and returns
InvalidationRefused ==
    /\ invalidator.pc = "idle" /\ invalidator'.pc = "idle"
    /\ nlists' # nlists /\ listers' = listers

\* C13: an invalidation that finds its mutex held returns at once and leaves
\* the project list, its timestamp and the Package entries unchanged; when an
\* invalidate_list that found the mutex free returns, the project list is
\* empty and has no timestamp, and when such an invalidate_project returns,
\* the project has no entry, so that the next list call refetches.
C13_InvalidationTakesEffect ==
    [][/\ InvalidationRefused => UNCHANGED <<index, index_t, packages>>
       /\ (invalidator.pc = "clear_index" /\ invalidator'.pc = "idle")
             => index' = {} /\ index_t' = -1
       /\ (invalidator.pc = "pop" /\ invalidator'.pc = "idle")
             => packages'[invalidator.name] = -1]_vars

(***************************************************************************)
(* Cache: properties.                                                      *)
(***************************************************************************)
\* index i resolves the requested file
Resolves(i) == GetFileUrl(indexes[i], agg.file_name).kind = "url"

\* the request of the handler has returned from the Cache
Returned(op) == agg.op = op /\ agg.pc \in {"done", "responded"}

\* C14: Cache.get_file takes the URL from the first index, root then the
\* extras in order, whose get_file_url succeeds; a later index never
\* overrides an earlier one that resolved.
C14_FirstIndexWins ==
    (Returned("get_file") /\ agg.result.kind = "path") =>
        \E i \in 1..Len(indexes) :
            /\ Resolves(i)
            /\ \A j \in 1..(i - 1) : ~Resolves(j)
            /\ agg.result.value = GetFileUrl(indexes[i], agg.file_name).value

\* C15: Cache.list_files raises NotFound if and only if every index, root
\* and extras, raised NotFound for the project; an index that has the
\* project, even with no file, makes it return the combined list.
C15_NotFoundIffNoIndexHasProject ==
    Returned("list_files") =>
        (agg.result.kind = "NotFound" <=> \A i \in 1..Len(indexes) : ~indexes[i].found)

\* the names index i offers for the project
Offered(i) == IF indexes[i].found THEN FileNamesOf(indexes[i].files) ELSE {}

\* the files of index i whose name no earlier index offers, in its order
Contribution(i) ==
    SelectSeq(indexes[i].files,
              LAMBDA f : f.name \notin UNION {Offered(j) : j \in 1..(i - 1)})

RECURSIVE Contributions(_)
\* the contributions of the first n indexes one after the other
Contributions(n) == IF n = 0 THEN <<>> ELSE Contributions(n - 1) \o Contribution(n)

\* C16: Cache.list_files returns root's files in root's order, then for each
\* extra in order those of its files whose name is not yet in the result; no
\* name comes twice, and a name several indexes offer comes from the
\* earliest of them.
C16_MergedByName ==
    (Returned("list_files") /\ agg.result.kind = "files") =>
        LET fl == agg.result.value
        IN  /\ fl = Contributions(Len(indexes))
            /\ indexes[1].found => SubSeq(fl, 1, Len(indexes[1].files)) = indexes[1].files
            /\ \A a, b \in 1..Len(fl) : fl[a].name = fl[b].name => a = b
            /\ \A a \in 1..Len(fl) :
                 \E i \in 1..Len(indexes) :
                     /\ fl[a].name \in Offered(i)
                     /\ \A j \in 1..(i - 1) : fl[a].name \notin Offered(j)
                     /\ fl[a] = FileNamed(indexes[i].files, fl[a].name)
            /\ FileNamesOf(fl) = UNION {Offered(i) : i \in 1..Len(indexes)}

\* the root and an extra offer the same name, and the extra adds a file of
\* its own
C16_Witness ==
    /\ Returned("list_files") /\ agg.result.kind = "files"
    /\ Len(indexes[1].files) = 1
    /\ \E i \in 2..Len(indexes) :
         /\ Len(indexes[i].files) = 2
         /\ indexes[1].files[1].name \in Offered(i)
         /\ agg.result.value = Append(indexes[1].files, Contribution(i)[1])

\* C17: Cache.list_projects returns the union of the normalised names in the
\* listings of the root and of every extra, each name once, sorted
\* ascending.
C17_SortedUnion ==
    Returned("list_projects") =>
        LET names == agg.result.value
        IN  /\ agg.result.kind = "names"
            /\ \A n \in ListedNames :
                 (\E a \in 1..Len(names) : names[a] = n)
                     <=> (\E i \in 1..Len(indexes) : n \in indexes[i].names)
            /\ \A a \in 1..Len(names) : names[a] \in ListedNames
            /\ \A a, b \in 1..Len(names) : a < b => StrLess(names[a], names[b])

\* three names from three listings that overlap, the root's own name last
C17_Witness ==
    /\ Returned("list_projects")
    /\ agg.result.value = << <<"a">>, <<"a", "-", "b">>, <<"a", "b">> >>
    /\ indexes[1].names = {<<"a", "b">>}
    /\ \E i, j \in 2..Len(indexes) : i # j /\ <<"a">> \in indexes[i].names \cap indexes[j].names

\* the requested name, without the suffix .metadata when it has it, is a file
\* of the project in index i
HasFile(i) ==
    /\ indexes[i].found
    /\ (IF LastChars(agg.file_name, 9) = MetadataSuffix
        THEN DropLastChars(agg.file_name, 9)
        ELSE agg.file_name) \in FileNamesOf(indexes[i].files)

\* C18: Cache.get_file raises NotFound iff no index resolves the file: the
\* project is in no index, or the file is in the project of no index that has
\* it. Then FileCache.get is not called, and the HTTP layer answers 404.
C18_NotFoundIffUnresolved ==
    /\ Returned("get_file") =>
         /\ agg.result.kind = "NotFound" <=> \A i \in 1..Len(indexes) : ~HasFile(i)
         /\ agg.result.kind = "NotFound" =>
              /\ ncalls = 0
              /\ \A c \in Callers : callers[c] = IdleCaller
              /\ files = <<>> /\ workers = <<>>
         /\ agg.result.kind # "NotFound" =>
              \E c \in Callers :
                  callers[c].pc # "idle" /\ callers[c].url = agg.result.value
    /\ (agg.op = "get_file" /\ agg.pc = "responded") =>
         (agg.status = 404 <=> agg.result.kind = "NotFound")

\* the project is in two indexes and the file in none: 404
C18_Witness ==
    /\ agg.op = "get_file" /\ agg.pc = "responded" /\ agg.status = 404
    /\ indexes[1].found /\ indexes[1].files # <<>>
    /\ \E i \in 2..Len(indexes) : indexes[i].found
    /\ \E i \in 2..Len(indexes) : ~indexes[i].found

\* the requested name ends in .metadata
AsksMetadata == LastChars(agg.file_name, 9) = MetadataSuffix

\* the file of index i the requested name stands for without its suffix
Underlying(i) == FileNamed(indexes[i].files, DropLastChars(agg.file_name, 9))

\* C19: for a name ending in .metadata, get_file_url looks up the name without
\* the suffix and returns that file's URL with .metadata appended to its path,
\* the scheme, host, query and fragment unchanged; it raises NotFound iff that
\* file is not in the project, whether or not core metadata was advertised.
C19_MetadataUrl ==
    (Returned("get_file") /\ AsksMetadata) =>
        /\ HasFile(1) =>
             /\ agg.result.kind = "path"
             /\ UrlSplit(agg.result.value)
                  = [UrlSplit(Underlying(1).url) EXCEPT !.path = @ \o MetadataSuffix]
        /\ (~HasFile(1) /\ \A i \in 2..Len(indexes) : ~indexes[i].found) =>
             agg.result.kind = "NotFound"
        /\ agg.result.kind = "path" =>
             \E i \in 1..Len(indexes) :
                 /\ HasFile(i)
                 /\ UrlSplit(agg.result.value)
                      = [UrlSplit(Underlying(i).url) EXCEPT !.path = @ \o MetadataSuffix]

\* f.metadata is asked of a root that lists f, with a query and a fragment in
\* its URL, without advertising metadata and without a file f.metadata
C19_Witness ==
    /\ Returned("get_file") /\ agg.file_name = FileFM
    /\ indexes[1].found /\ Len(indexes[1].files) = 1
    /\ indexes[1].files[1].name = FileF /\ ~indexes[1].files[1].core_metadata
    /\ UrlSplit(indexes[1].files[1].url).query = <<"q">>
    /\ UrlSplit(indexes[1].files[1].url).fragment = <<"g">>
    /\ UrlSplit(agg.result.value).path = <<"/">> \o FileFM
    /\ UrlSplit(agg.result.value).netloc = <<"h", "1">>

(***************************************************************************)
(* The index cache: the key of a project.                                  *)
(***************************************************************************)
\* the threads inside the with block of list_files for a spelling of the
\* project whose normalised name is n
RefreshingProject(n) ==
    UNION {Refreshing(m) : m \in {k \in ICNames : NameNormalise(k) = n}}

\* C20: an IndexCache keys its entries and its per-project mutexes by the
\* normalised name, so for spellings that normalise equal at most one
\* refresh of the project is in flight.
C20_NormalisedKey ==
    \A n \in {NameNormalise(m) : m \in ICNames} : Cardinality(RefreshingProject(n)) <= 1

(***************************************************************************)
(* The server: properties.                                                 *)
(***************************************************************************)
\* the request was answered with the file in a JSON listing
JsonListed == http.pc = "responded" /\ http.status = 200 /\ http.wants = "json"

\* C21: for a File parsed from an HTML anchor, yanked is true iff data-yanked
\* is there with an empty value, is the attribute's string iff it is there and
\* not empty, and is absent iff the attribute is missing; so the JSON listing
\* has a yanked key only for files whose anchor had data-yanked.
C21_YankedFromAnchor ==
    (http.pc # "request" /\ upstream.kind = "html") =>
        LET attr == upstream.attrib["data-yanked"]
        IN  /\ Yanked(http.file) = (IF attr = Missing THEN None
                                    ELSE IF attr = Str(<<>>) THEN Bool(TRUE)
                                    ELSE attr)
            /\ JsonListed => (http.body["yanked"] # Missing <=> attr # Missing)

\* C22: in the attributes of every File the parsers produce, data-core-metadata
\* and data-dist-info-metadata are both absent or both present with equal
\* values; an anchor that has both with different values gives both the value
\* of data-core-metadata.
C22_MetadataAliasesAgree ==
    http.pc # "request" =>
        LET attributes == Attributes(http.file)
            core == attributes["data-core-metadata"]
        IN  /\ core = attributes["data-dist-info-metadata"]
            /\ (upstream.kind = "html" /\ upstream.attrib["data-core-metadata"] # Missing) =>
                 core = upstream.attrib["data-core-metadata"]
            /\ (upstream.kind = "html" /\ upstream.attrib["data-core-metadata"] = Missing) =>
                 core = upstream.attrib["data-dist-info-metadata"]
            /\ upstream.kind = "json" =>
                 (core # Missing <=>
                    Truthy(Or(Get(upstream.data, "core-metadata"),
                              Get(upstream.data, "dist-info-metadata"))))

\* an anchor with two different values was parsed and listed in HTML
C22_Witness ==
    /\ http.pc = "responded" /\ http.wants = "html" /\ upstream.kind = "html"
    /\ upstream.attrib["data-core-metadata"] = Str(Sha("a"))
    /\ upstream.attrib["data-dist-info-metadata"] = Str(Sha("b"))
    /\ http.body["data-dist-info-metadata"] = Str(Sha("a"))

\* C23: in every JSON file listing the proxy returns, the url of a file
\* object is its filename and never the upstream URL, whichever
\* representation the index sent.
C23_UrlIsFilename ==
    JsonListed =>
        /\ http.body["url"] = http.body["filename"]
        /\ http.body["url"] = (IF upstream.kind = "html" THEN Str(upstream.text)
                               ELSE upstream.data["filename"])
        /\ http.body["url"] # Str(http.file.url)

\* a file an index sent as a JSON object with the URL of another host was
\* listed in JSON
C23_Witness ==
    /\ JsonListed /\ upstream.kind = "json"
    /\ UrlSplit(http.file.url).netloc = <<"h", "2">>
    /\ http.body["url"] = Str(FileF)

\* the Accept header prefers the JSON type key: its quality is not zero, not
\* less than that of any HTML type and greater than that of text/html
PrefersJson(key) ==
    LET q(k) == Quality(http.accept, k)
    IN  /\ q(key) # 0
        /\ \A k \in HtmlKeys : q(key) >= q(k)
        /\ q(key) > q("text/html")

\* the format argument names a type _wants_json knows
FormatDecides == http.format \in {JsonV1, JsonLatest} \cup HtmlKeys

\* C24: _wants_json answers JSON iff format is the v1 or latest JSON type or,
\* format naming no known type, the Accept header prefers one of the two; it
\* aborts with 406 iff no format decides and the JSON and HTML qualities are
\* all zero; it answers HTML otherwise. Accept: */* gives HTML, and an Accept
\* header with an unknown type alone gives 406.
C24_WantsJson ==
    http.pc \in {"render", "responded"} =>
        /\ http.wants = "json" <=>
             \/ http.format \in {JsonV1, JsonLatest}
             \/ ~FormatDecides /\ (PrefersJson(JsonV1) \/ PrefersJson(JsonLatest))
        /\ http.wants = "406" <=>
             /\ ~FormatDecides
             /\ \A k \in {JsonV1, JsonLatest} \cup HtmlKeys : Quality(http.accept, k) = 0
        /\ http.wants \in {"json", "html", "406"}
        /\ http.status = 406 <=> http.wants = "406"
        /\ (http.format = "" /\ http.accept = [r \in AcceptRanges |-> IF r = "*/*" THEN 10 ELSE -1])
             => http.wants = "html"
        /\ (http.format = "" /\ http.accept = [r \in AcceptRanges |-> -1]) => http.wants = "406"

\* JSON is as acceptable as the versioned HTML type and more than text/html:
\* the listing is JSON
C24_Witness ==
    /\ http.pc = "responded" /\ http.status = 200 /\ http.wants = "json"
    /\ http.format = "application/vnd.pypi.simple.v42+xml"
    /\ http.accept[JsonV1] = 5 /\ http.accept[JsonLatest] = -1
    /\ http.accept["application/vnd.pypi.simple.v1+html"] = 5
    /\ http.accept["text/html"] = 0 /\ http.accept["*/*"] = 10

(***************************************************************************)
(* The index cache: failures and refreshes.                                *)
(***************************************************************************)
\* call t leaves the step of _list_files or list_projects it is at, pc
Leaves(t, pc) == listers[t].pc = pc /\ listers'[t].pc # pc

\* C25: in list_files for a project with no fresh entry, the project's page is
\* requested speculatively when the listing is stale or was never loaded; when
\* that request is skipped or its response is not 2xx, the listing is made
\* fresh, NotFound is raised iff the normalised name is not in the listing,
\* and otherwise the URL the listing records is requested and the result
\* cached, for every spelling whose normalised form is listed.
C25_FallsBackToListing ==
    [][\A t \in Listers :
         /\ Leaves(t, "direct") =>
              /\ listers'[t].reqs > listers[t].reqs <=> ~IndexIsFresh(index_t, now, ttl)
              /\ listers'[t].pc \in {"store", "index_acquire", "release"}
         /\ Leaves(t, "via_index") =>
              /\ listers'[t].exc = "NotFound" <=> NameNormalise(listers[t].name) \notin index
              /\ NameNormalise(listers[t].name) \in index =>
                   /\ listers'[t].reqs = listers[t].reqs + 1
                   /\ listers'[t].exc \in {"none", "HTTPError"}]_vars

\* C26: when a refresh of the project listing fails, by an error status or
\* by an error while the streamed body is read, the error reaches the caller
\* and the listing's time is not advanced, so the next list_projects call
\* refreshes again.
C26_FailedRefreshKeepsStamp ==
    [][\A t \in Listers :
         (Leaves(t, "index_refresh") /\ listers'[t].ireqs > listers[t].ireqs
              /\ listers'[t].exc # "none")
            => index_t' = index_t /\ ~IndexIsFresh(index_t', now', ttl')]_vars

\* C27: _packages[name] is assigned only after the new Package has all the
\* files of the response, so whoever reads _packages finds the whole previous
\* entry or the whole new one, never one partly filled, and a refresh that
\* fails leaves the previous entry in place.
C27_PackageReplacedWhole ==
    [][/\ \A n \in ICNames :
            /\ package_files'[n] \in {-1, MaxPageFiles}
            /\ packages'[n] = -1 <=> package_files'[n] = -1
            /\ (packages'[n] # packages[n] /\ packages'[n] # -1) =>
                 \E t \in Listers :
                     /\ listers[t].name = n /\ listers[t].pc = "store"
                     /\ listers[t].package = [refreshed |-> packages'[n],
                                              files |-> MaxPageFiles]
       /\ \A t \in Listers :
            (listers[t].op = "files" /\ listers[t].exc = "none" /\ listers'[t].exc # "none"
                 /\ listers[t].pc # "result")
               => UNCHANGED <<packages, package_files>>]_vars

\* reading the body of a refresh broke after the first file while the entry
\* of an earlier refresh is still there
C27_Witness ==
    \E t \in Listers :
        /\ listers[t].pc = "release" /\ listers[t].exc = "ConnectionError"
        /\ listers[t].package.files = 1
        /\ packages[listers[t].name] # -1
        /\ packages[listers[t].name] < listers[t].package.refreshed

\* C28: the lock table hands every caller the same mutex for a key, however
\* the first requests for it interleave: at most one mutex is ever made for a
\* key, and a key that has a mutex keeps it.
C28_OneLockPerKey ==
    [][/\ \A n \in ICNames :
            /\ locks_made'[n] <= 1
            /\ locks_made'[n] = 0 <=> package_locks'[n] = "none"
            /\ locks_made[n] = 1 => locks_made'[n] = 1
       /\ \A t \in Listers :
            listers'[t].lock # 0 =>
               /\ listers'[t].lock = locks_made'[listers'[t].name]
               /\ \A u \in Listers :
                    (listers'[u].lock # 0 /\ listers'[u].name = listers'[t].name)
                       => listers'[u].lock = listers'[t].lock]_vars

\* two first requests for one key raced: the second caller is inside the outer
\* mutex after the first one made the key's mutex, and is about to test again
C28_Witness ==
    \E t, u \in Listers :
        /\ t # u
        /\ listers[t].name = listers[u].name
        /\ listers[t].lock = 1
        /\ listers[u].pc = "locks_make"
        /\ package_locks[listers[u].name] # "none"

\* C30: cache keys tell upstream URLs apart: two different URLs given to get
\* (the same path on indexes that differ in port, scheme, query or hostname
\* punctuation) never have the same key, and the local path get returns for a
\* URL is that of a file downloaded from this URL.
C30_KeyPerUrl ==
    /\ \A c, d \in Callers :
         (callers[c].pc # "idle" /\ callers[d].pc # "idle" /\ callers[c].url # callers[d].url)
            => Key(c) # Key(d)
    /\ \A c \in Callers :
         (callers[c].pc = "ret" /\ callers[c].res = "path" /\ callers[c].obj # 0)
            => workers[callers[c].obj].url = callers[c].url

\* C29: a _CachedFile is put into _files only after the whole body is in the
\* temporary file and the temporary file has been renamed to the path: no
\* _CachedFile of _files ever refers to a file that is missing or holds only a
\* part of the body, and a download that fails publishes no _CachedFile.
C29_PublishedFileIsWhole ==
    /\ \A i \in 1..Len(files) :
         files[i].kind = "cached" =>
            /\ disk[files[i].key] = files[i].size
            /\ \A u \in FCUrls : GetKey(u) = files[i].key => files[i].size = BodySize(u)
    /\ \A w \in 1..Len(workers) :
         workers[w].st \in {"none", "raised"} =>
            \A i \in 1..Len(files) : ~(files[i].kind = "cached" /\ files[i].id = w)

\* C31: from_json_response takes the metadata marker from the key
\* core-metadata whenever the file object has that key, also when its value
\* is false, and from dist-info-metadata only when core-metadata is absent.
C31_CoreMetadataKeyWins ==
    (http.pc # "idle" /\ http.pc # "request" /\ upstream.kind = "json") =>
        DistInfoMetadata(http.file) =
            IF upstream.data["core-metadata"].t # "missing"
            THEN upstream.data["core-metadata"]
            ELSE Get(upstream.data, "dist-info-metadata")

\* the File a downstream proxpi parsed from the JSON listing of a File that
\* came from an anchor
Reparsed == http.pc = "reparsed" /\ upstream.kind = "html"

C33_SplitAtFirstEq ==
    (http.pc # "idle" /\ http.pc # "request" /\ upstream.kind = "html") =>
        LET AtFirstEq(s) ==
                LET e == FindAny(s, {"="})
                IN  IF e > Len(s) THEN Dict(<<>>)
                    ELSE Dict(<< <<SubSeq(s, 1, e - 1), SubSeq(s, e + 1, Len(s))>> >>)
            metadata == Get(http.file.attributes, "data-core-metadata")
        IN  /\ Hashes(http.file) = AtFirstEq(http.file.fragment)
            /\ metadata.t = "str" =>
                 DistInfoMetadata(http.file) =
                    IF AtFirstEq(metadata.v).h = <<>> THEN Bool(TRUE)
                    ELSE AtFirstEq(metadata.v)

\* C35: the assertion of _get_cached holds in every reachable state: an entry
\* _get_cached finds for the key is a _CachedFile and never a download in
\* flight, also when another get call for the key starts a download between
\* the caller's _wait_for_existing_download and its _get_cached.
C35_GetCachedFindsFile ==
    [][\A c \in Callers :
         (callers[c].pc = "cached_read" /\ callers'[c].pc # "cached_read")
            => callers'[c].res # "AssertionError"]_vars

\* C36: the eviction pass a get call runs for a URL never evicts the file of
\* this URL: when the download has published its _CachedFile before or during
\* the pass, the entry survives the pass, and its size is not counted as
\* existing and as anticipated at once.
C36_OwnFileSurvivesEviction ==
    [][\A c \in Callers :
         (callers[c].pc = "evict" /\ callers'[c] # callers[c] /\ IsCached(files, Key(c)))
            => /\ IsCached(files', Key(c))
               /\ callers[c].existing_size + callers[c].file_size
                     <= SumSizes(files, CachedKeys(files)) + BodySize(callers[c].url)
                        - Lookup(files, Key(c)).size]_vars

\* C37: the recursion get -> _start_downloading -> _evict_lfu -> get is
\* bounded: one call starts at most one download and calls itself at most
\* once.
C37_RecursesOnce ==
    \A c \in Callers :
        /\ callers[c].depth <= 1
        /\ callers[c].depth = 1 => callers[c].pc \notin {"start", "lock", "evict"}

\* C38: while the listing timestamp is set and no listing refresh is under
\* way, the listing holds every name of the refresh that set the timestamp;
\* an invalidate_list that interleaves with a list_projects refresh never
\* leaves a fresh timestamp beside an emptied or partial listing.
C38_StampedListingIsWhole ==
    [][/\ (index_t' # -1 /\ index_lock' = "free") => index \subseteq index'
       /\ \A t \in Listers :
            (listers'[t].pc = "done" /\ listers'[t].op = "projects"
               /\ listers'[t].ifresh = "no" /\ index_t' # -1 /\ index_lock' = "free")
              => listers'[t].listed \subseteq index']_vars

\* C39: an invalidate_project beside it never makes list_files fail: after
\* list_files has refreshed or validated the entry under the project's
\* mutex, its read of _packages[project] succeeds in every interleaving.
C39_ResultReadSucceeds ==
    [][\A t \in Listers :
         (listers[t].pc = "result" /\ listers'[t].pc # "result")
            => listers'[t].pc = "done"]_vars

\* C40: a refresh of the project listing only adds names: a name leaves the
\* listing only when invalidate_list empties it, so between invalidations the
\* listing grows, and a project deleted upstream is still listed after later
\* refreshes that succeed.
C40_ListingOnlyGrows ==
    [][/\ ~(index \subseteq index') => (invalidator.pc = "clear_index" /\ index' = {})
       /\ \A t \in Listers :
            (listers[t].pc = "index_refresh" /\ listers'[t].pc # "index_refresh")
               => index \subseteq index']_vars

\* a list_projects call refreshed the listing from a response without a name
\* the listing had, and the name is still listed
C40_Witness ==
    \E t \in Listers :
        /\ listers[t].pc = "done" /\ listers[t].op = "projects"
        /\ listers[t].ifresh = "no"
        /\ \E n \in index : n \notin listers[t].listed

\* the thread holding the mutex that thread t is blocked on, "nobody" when t
\* is not blocked
WaitsFor(t) ==
    IF listers[t].pc = "locks_lock" /\ locks_lock # "free" THEN locks_lock
    ELSE IF /\ listers[t].pc = "acquire"
            /\ package_locks[listers[t].name] \notin {"free", "none"}
         THEN package_locks[listers[t].name]
    ELSE IF listers[t].pc = "index_acquire" /\ index_lock # "free" THEN index_lock
    ELSE "nobody"

====
